---- MODULE Spec2Model ----
(***************************************************************************)
(* Model of the di-rally command execution engine:                         *)
(*   - ShadowTransactionCommandBuilder (src/core/command-builder.ts)       *)
(*   - DefaultTransactionManager       (src/unnamed/part_000)              *)
(*   - FifoEventCollector              (src/services/event-collector.ts)   *)
(* Hooks and command factories are caller-supplied functions; a hook or a  *)
(* core command, once called, either resolves or throws.                   *)
(***************************************************************************)
EXTENDS Integers, Sequences, FiniteSets, TLC

\* ---------------------------------------------------------------- bounds
MaxBuilders == 3      \* builder objects ever constructed (the root included)
MaxCalls    == 1      \* processEvent calls ever made
MaxRegs     == 2      \* registerCommandFactory calls made by the caller
MaxOps      == 5      \* collector operations made by the caller
MaxConc     == 2      \* processEvent calls in flight on one collector
MaxExtra    == 1      \* events a command publishes before its last one
MaxRounds   == 2      \* re-submissions of collected events after a root event
MaxInstances == 3     \* class constructor and factory calls made by the container

Types     == {"T1", "T2"}          \* event types
NoFactory == 0                     \* Map.get of an absent key (factories are 1, 2, ...)
NoHook    == 0                     \* hooks are 2, 3, ...; 0 stands for none
NoCause   == <<"", 0>>             \* causationId: "" of an initial event
NoEvent   == [id |-> <<"none", 0>>, type |-> "none", correlationId |-> <<"none", 0>>,
              causationId |-> NoCause]
NoCommand == [commandId |-> <<0, 0>>,
              inner |-> [commandId |-> <<0, 0>>, factory |-> 0, event |-> NoEvent],
              this |-> 0]
NoState   == 0                     \* state objects are 1, 2, ...; 0 stands for none
NoContext == [event |-> NoEvent, state |-> NoState]
NoError   == <<"none", 0>>
NoFactoryRegistered == <<"build", 0>>   \* Error(`No command factory registered ...`)
FactoryThrew == <<"factory", 0>>       \* whatever the factory call threw

Builders == 1..MaxBuilders
Calls    == 1..MaxCalls

VARIABLES
  nBuilders,         \* number of builders constructed so far; builder 1 is the root
  preInvokeHooks,    \* builder -> sequence of hooks   (private preInvokeHooks)
  postInvokeHooks,   \* builder -> sequence of hooks   (private postInvokeHooks)
  commandFactories,  \* builder -> [type -> factory or NoFactory]
  origin,            \* history: builder -> how it was derived
  registered,        \* history: builder -> [type -> sequence of factories registered]
  nRegs,             \* number of caller registrations so far
  calls,             \* processEvent call -> its record
  events,            \* FifoEventCollector.events
  states,            \* state object -> the entries written to it (context.state)
  added,             \* history: events passed to addEvent since the last clear
  returned,          \* the array the caller got from its last getEvents call
  ops,               \* history: the collector operations the caller has made
  container,         \* DIContainer: its services map and its instances map
  resolution         \* history: what the container's operations have done so far

vars == <<nBuilders, preInvokeHooks, postInvokeHooks, commandFactories,
          origin, registered, nRegs, calls, events, states, added,
          returned, ops, container, resolution>>

\* the caller's own use of the collector
clientVars == <<returned, ops>>

\* the service container used to wire the instances together
containerVars == <<container, resolution>>

builderVars == <<nBuilders, preInvokeHooks, postInvokeHooks, commandFactories,
                 origin, registered, nRegs>>

\* ----------------------------------------------------------- collections
\* Map.set(key, value): the entry is replaced, every other entry is kept
MapSetFirstWins(map, key, value) ==
  IF map[key] = NoFactory THEN [map EXCEPT ![key] = value] ELSE map

MapSet(map, key, value) == [map EXCEPT ![key] = value]

\* new Map()
EmptyMap == [t \in Types |-> NoFactory]

\* [...list, hook]
SpreadAppendFront(list, hook) == <<hook>> \o list

SpreadAppend(list, hook) == Append(list, hook)

\* [...list]
SpreadCopy(list) == list

\* this.commandFactories.forEach((factory, eventType) =>
\*     newBuilder.registerCommandFactory(eventType, factory))
CopyFactoriesNone(map) == EmptyMap

CopyFactories(map) ==
  [t \in Types |-> IF map[t] # NoFactory THEN map[t] ELSE EmptyMap[t]]

\* registration history of a fresh builder after the forEach copy
CopiedHistory(map) ==
  [t \in Types |-> IF map[t] # NoFactory THEN <<map[t]>> ELSE << >>]

\* ------------------------------------------------------------------ events
Event(c, t) ==
  [id |-> <<"ev", c>>, type |-> t, correlationId |-> <<"corr", c>>,
   causationId |-> NoCause]

\* (variant: the causation id is copied from the triggering event)
SideEffectCopiedCausation(ev) ==
  [id |-> <<"fx", ev.id>>, type |-> "SIDE_EFFECT",
   correlationId |-> ev.correlationId, causationId |-> ev.causationId]

\* the event a command publishes (match-store-command.ts addEvent calls)
SideEffect(ev) ==
  [id |-> <<"fx", ev.id>>, type |-> "SIDE_EFFECT",
   correlationId |-> ev.correlationId, causationId |-> ev.id]

\* FifoEventCollector.addEvent: this.events.push(event)
addEventDedup(evs, ev) ==
  IF \E i \in 1..Len(evs) : evs[i] = ev THEN evs ELSE Append(evs, ev)

addEventDrop(evs, ev) == evs

addEventFront(evs, ev) == <<ev>> \o evs

addEvent(evs, ev) == Append(evs, ev)

\* ------------------------------------------------------------------ calls
\* one processEvent call: the program fields (pc, builder of the Mediator it
\* was submitted to, event, command, context, loop positions, the error in
\* flight, the state of the returned promise) and its history (trace of hook
\* and command steps, factories invoked, handleError calls, the registrations
\* for the event's type at build time, the command ids passed to the hooks,
\* the events passed to addEvent, what each step found in the state object it
\* was given, what the metrics service was told about the call's command)
IdleCall ==
  [pc |-> "idle", builder |-> 0, event |-> NoEvent, command |-> NoCommand,
   context |-> NoContext, nPre |-> 0, nPost |-> 0, error |-> NoError,
   promise |-> "none", trace |-> << >>, factoryCalls |-> << >>,
   handled |-> << >>, regAtBuild |-> << >>, hookArgs |-> << >>,
   published |-> << >>, seen |-> << >>, recorded |-> << >>]

\* the array a getEvents call returned: whether the caller holds one, its
\* items, and whether it is the collector's own array object
NoArray == [held |-> FALSE, items |-> << >>, alias |-> FALSE]

\* the service container (DIContainer)
Ids == {"A", "B"}                  \* service identifiers (symbols)

\* a ServiceDefinition: useClass and useFactory name a class or a factory
\* (0: the field is not set), useValue is not set, set to a falsy value or
\* set to a truthy one, lifetime is 'singleton', 'transient' or not set
Definition(useClass, useFactory, useValue, lifetime) ==
  [useClass |-> useClass, useFactory |-> useFactory, useValue |-> useValue,
   lifetime |-> lifetime]

NoDefinition == Definition(0, 0, "absent", "undefined")

\* Map.get of an absent identifier gives undefined
Unregistered == [registered |-> FALSE, def |-> NoDefinition]

NoInstance == [kind |-> "none", of |-> 0, n |-> 0]

NotCached == [has |-> FALSE, value |-> NoInstance]

\* new DIContainer(): both maps are empty
NewContainer ==
  [services |-> [id \in Ids |-> Unregistered],
   instances |-> [id \in Ids |-> NotCached]]

\* nothing has been resolved yet: per identifier, the instance the first
\* resolve returned and the constructor or factory calls made since the
\* identifier was registered or the cache was cleared; the calls made in all;
\* the outcome of the last operation
NoOutcome ==
  [op |-> "none", id |-> "", threw |-> FALSE, error |-> "none", ran |-> "none",
   result |-> NoInstance]

NoResolution ==
  [first |-> [id \in Ids |-> NoInstance],
   runs |-> [id \in Ids |-> 0],
   completed |-> [id \in Ids |-> 0],
   built |-> 0,
   last |-> NoOutcome]

Init ==
  /\ nBuilders = 1
  /\ preInvokeHooks = [b \in Builders |-> << >>]
  /\ postInvokeHooks = [b \in Builders |-> << >>]
  /\ commandFactories = [b \in Builders |-> EmptyMap]
  /\ origin = [b \in Builders |-> [parent |-> 0, kind |-> "root", hook |-> NoHook]]
  /\ registered = [b \in Builders |-> [t \in Types |-> << >>]]
  /\ nRegs = 0
  /\ calls = [c \in Calls |-> IdleCall]
  /\ events = << >>
  /\ states = [o \in 0..MaxCalls |-> << >>]
  /\ added = << >>
  /\ returned = NoArray
  /\ ops = << >>
  /\ container = NewContainer
  /\ resolution = NoResolution

\* ---------------------------------------------------------- builder operations
\* (variant: a builder and the builders derived from it hold one Map object)
registerCommandFactoryShared(b, eventType, factory) ==
  /\ b \in 1..nBuilders
  /\ nRegs < MaxRegs
  /\ commandFactories' =
       [d \in Builders |-> IF d \in 1..nBuilders /\ (d = b \/ origin[d].parent = b \/ origin[b].parent = d)
                           THEN MapSet(commandFactories[d], eventType, factory)
                           ELSE commandFactories[d]]
  /\ registered' = [registered EXCEPT ![b][eventType] = Append(@, factory)]
  /\ nRegs' = nRegs + 1
  /\ UNCHANGED <<nBuilders, preInvokeHooks, postInvokeHooks, origin, calls, events,
               states, added, clientVars, containerVars>>

\* ShadowTransactionCommandBuilder.registerCommandFactory
registerCommandFactory(b, eventType, factory) ==
  /\ b \in 1..nBuilders
  /\ nRegs < MaxRegs
  /\ commandFactories' =
       [commandFactories EXCEPT ![b] = MapSet(@, eventType, factory)]
  /\ registered' = [registered EXCEPT ![b][eventType] = Append(@, factory)]
  /\ nRegs' = nRegs + 1
  /\ UNCHANGED <<nBuilders, preInvokeHooks, postInvokeHooks, origin, calls, events,
               states, added, clientVars, containerVars>>

\* (variant: the new builder shares the receiver's array and pushes onto it)
withPreInvokeHookShared(b, hook) ==
  /\ b \in 1..nBuilders
  /\ nBuilders < MaxBuilders
  /\ LET new == nBuilders + 1 IN
     /\ nBuilders' = new
     /\ commandFactories' =
          [commandFactories EXCEPT ![new] = CopyFactories(commandFactories[b])]
     /\ preInvokeHooks' =
          [preInvokeHooks EXCEPT ![new] = SpreadAppend(preInvokeHooks[b], hook),
                                 ![b] = SpreadAppend(preInvokeHooks[b], hook)]
     /\ postInvokeHooks' =
          [postInvokeHooks EXCEPT ![new] = SpreadCopy(postInvokeHooks[b])]
     /\ origin' = [origin EXCEPT ![new] = [parent |-> b, kind |-> "pre", hook |-> hook]]
     /\ registered' = [registered EXCEPT ![new] = CopiedHistory(commandFactories[b])]
  /\ UNCHANGED <<nRegs, calls, events, states, added, clientVars, containerVars>>

\* ShadowTransactionCommandBuilder.withPreInvokeHook
withPreInvokeHook(b, hook) ==
  /\ b \in 1..nBuilders
  /\ nBuilders < MaxBuilders
  /\ LET new == nBuilders + 1 IN
     /\ nBuilders' = new
     /\ commandFactories' =
          [commandFactories EXCEPT ![new] = CopyFactories(commandFactories[b])]
     /\ preInvokeHooks' =
          [preInvokeHooks EXCEPT ![new] = SpreadAppend(preInvokeHooks[b], hook)]
     /\ postInvokeHooks' =
          [postInvokeHooks EXCEPT ![new] = SpreadCopy(postInvokeHooks[b])]
     /\ origin' = [origin EXCEPT ![new] = [parent |-> b, kind |-> "pre", hook |-> hook]]
     /\ registered' = [registered EXCEPT ![new] = CopiedHistory(commandFactories[b])]
  /\ UNCHANGED <<nRegs, calls, events, states, added, clientVars, containerVars>>

\* (variant: the new builder shares the receiver's array and pushes onto it)
withPostInvokeHookShared(b, hook) ==
  /\ b \in 1..nBuilders
  /\ nBuilders < MaxBuilders
  /\ LET new == nBuilders + 1 IN
     /\ nBuilders' = new
     /\ commandFactories' =
          [commandFactories EXCEPT ![new] = CopyFactories(commandFactories[b])]
     /\ preInvokeHooks' =
          [preInvokeHooks EXCEPT ![new] = SpreadCopy(preInvokeHooks[b])]
     /\ postInvokeHooks' =
          [postInvokeHooks EXCEPT ![new] = SpreadAppend(postInvokeHooks[b], hook),
                                  ![b] = SpreadAppend(postInvokeHooks[b], hook)]
     /\ origin' = [origin EXCEPT ![new] = [parent |-> b, kind |-> "post", hook |-> hook]]
     /\ registered' = [registered EXCEPT ![new] = CopiedHistory(commandFactories[b])]
  /\ UNCHANGED <<nRegs, calls, events, states, added, clientVars, containerVars>>

\* ShadowTransactionCommandBuilder.withPostInvokeHook
withPostInvokeHook(b, hook) ==
  /\ b \in 1..nBuilders
  /\ nBuilders < MaxBuilders
  /\ LET new == nBuilders + 1 IN
     /\ nBuilders' = new
     /\ commandFactories' =
          [commandFactories EXCEPT ![new] = CopyFactories(commandFactories[b])]
     /\ preInvokeHooks' =
          [preInvokeHooks EXCEPT ![new] = SpreadCopy(preInvokeHooks[b])]
     /\ postInvokeHooks' =
          [postInvokeHooks EXCEPT ![new] = SpreadAppend(postInvokeHooks[b], hook)]
     /\ origin' = [origin EXCEPT ![new] = [parent |-> b, kind |-> "post", hook |-> hook]]
     /\ registered' = [registered EXCEPT ![new] = CopiedHistory(commandFactories[b])]
  /\ UNCHANGED <<nRegs, calls, events, states, added, clientVars, containerVars>>

\* ------------------------------------------------------------ buildCommand
\* ShadowTransactionCommandBuilder.wrapWithHooks: the decorated command keeps
\* the base command's id and closes over the builder (this) and the command
wrapWithHooksNewId(b, command) ==
  [commandId |-> <<0, b>>, inner |-> command, this |-> b]

wrapWithHooks(b, command) ==
  [commandId |-> command.commandId, inner |-> command, this |-> b]

\* ShadowTransactionCommandBuilder.buildCommand, up to the factory call:
\* the factory found for the event's type, or the thrown error
lookupFactoryUnchecked(map, eventType) ==
  [ok |-> TRUE, factory |-> map[eventType]]

lookupFactory(map, eventType) ==
  IF map[eventType] = NoFactory
  THEN [ok |-> FALSE, factory |-> NoFactory]
  ELSE [ok |-> TRUE, factory |-> map[eventType]]

\* `await x`: the caller is suspended at waitPc until x settles
NoAwait(waitPc, nextPc) == nextPc

Await(waitPc, nextPc) == waitPc

\* a rejected await inside invoke is not caught there: control leaves invoke
\* and reaches the catch block of processEvent
Swallow(nextPc) == nextPc

\* (variant: processEvent has no catch block, the rejection is left unhandled)
Uncaught(nextPc) == "unhandled"

Propagate(nextPc) == "catch"

Step(kind, phase, hook, k) == [kind |-> kind, phase |-> phase, hook |-> hook, k |-> k]

\* state: {} in the context literal: a new, empty object for every call
SharedState(c) == 1

NewState(c) == c

\* hook(command, context): the hooks get the wrapped (base) command
HookArg(call) == call.command.inner

\* (variant: every step is handed a context with a state object of its own)
StepContextDetached(call) == [call.context EXCEPT !.state = NoState]

\* hook(command, context) / command.invoke(context): every step of one
\* invoke is handed the context object invoke was called with
StepContext(call) == call.context

\* context.state.x = ...: a hook or a command leaves an entry in the state
\* object of the context it was given
WriteState(c, phase, k) ==
  [states EXCEPT ![StepContext(calls[c]).state] =
     Append(@, [by |-> c, phase |-> phase, k |-> k])]

\* what a step finds when it starts: the state object it was handed and the
\* entries in it
Seen(call, phase, k) ==
  [phase |-> phase, k |-> k, obj |-> StepContext(call).state,
   entries |-> states[StepContext(call).state]]

\* DefaultTransactionManager.processEvent, up to the first await: buildCommand,
\* context construction, command.invoke entered
processEventOf(c, b, ev, factoryThrows) ==
  /\ calls[c].pc = "idle"
  /\ b \in 1..nBuilders
  /\ LET t  == ev.type
         r  == lookupFactory(commandFactories[b], t)
         started == [calls[c] EXCEPT !.builder = b, !.event = ev,
                                     !.promise = "pending",
                                     !.regAtBuild = registered[b][t]]
     IN
     calls' =
       IF ~r.ok
       THEN [calls EXCEPT ![c] =
               [started EXCEPT !.pc = "catch", !.error = NoFactoryRegistered]]
       ELSE IF factoryThrows \/ r.factory = NoFactory
       THEN [calls EXCEPT ![c] =
               [started EXCEPT !.pc = "catch", !.error = FactoryThrew,
                               !.factoryCalls = <<r.factory>>]]
       ELSE [calls EXCEPT ![c] =
               [started EXCEPT
                  !.pc = "pre",
                  !.factoryCalls = <<r.factory>>,
                  !.command = wrapWithHooks(b,
                                [commandId |-> <<r.factory, c>>, factory |-> r.factory,
                                 event |-> ev]),
                  !.context = [event |-> ev, state |-> NewState(c)]]]
  /\ UNCHANGED <<builderVars, events, states, added, clientVars, containerVars>>

\* processEvent called with a new event of type t
processEvent(c, b, t, factoryThrows) == processEventOf(c, b, Event(c, t), factoryThrows)

\* wrapWithHooks.invoke, pre-hook loop: the next pre-hook is called
InvokePreHook(c) ==
  LET call == calls[c]
      hooks == preInvokeHooks[call.command.this] IN
  /\ call.pc = "pre"
  /\ call.nPre < Len(hooks)
  /\ calls' = [calls EXCEPT ![c] =
        [call EXCEPT !.nPre = @ + 1,
                     !.hookArgs = Append(@, HookArg(call).commandId),
                     !.trace = Append(@, Step("start", "pre", hooks[call.nPre + 1], call.nPre + 1)),
                     !.seen = Append(@, Seen(call, "pre", call.nPre + 1)),
                     !.pc = Await("preAwait", "pre")]]
  /\ UNCHANGED <<builderVars, events, states, added, clientVars, containerVars>>

\* the awaited pre-hook resolves
ResolvePreHook(c) ==
  LET call == calls[c]
      hooks == preInvokeHooks[call.command.this] IN
  /\ call.pc = "preAwait"
  /\ calls' = [calls EXCEPT ![c] =
        [call EXCEPT !.trace = Append(@, Step("end", "pre", hooks[call.nPre], call.nPre)),
                     !.pc = "pre"]]
  /\ states' = WriteState(c, "pre", call.nPre)
  /\ UNCHANGED <<builderVars, events, added, clientVars, containerVars>>

\* the awaited pre-hook throws
ThrowPreHook(c) ==
  LET call == calls[c]
      hooks == preInvokeHooks[call.command.this] IN
  /\ call.pc = "preAwait"
  /\ calls' = [calls EXCEPT ![c] =
        [call EXCEPT !.trace = Append(@, Step("throw", "pre", hooks[call.nPre], call.nPre)),
                     !.error = <<"pre", call.nPre>>,
                     !.pc = Propagate("pre")]]
  /\ UNCHANGED <<builderVars, events, states, added, clientVars, containerVars>>

\* wrapWithHooks.invoke: the pre-hook loop is over, command.invoke is called
InvokeCore(c) ==
  LET call == calls[c]
      hooks == preInvokeHooks[call.command.this] IN
  /\ call.pc = "pre"
  /\ call.nPre >= Len(hooks)
  /\ calls' = [calls EXCEPT ![c] =
        [call EXCEPT !.trace = Append(@, Step("start", "core", NoHook, 1)),
                     !.seen = Append(@, Seen(call, "core", 1)),
                     !.pc = Await("coreAwait", "post")]]
  /\ UNCHANGED <<builderVars, events, states, added, clientVars, containerVars>>

\* the command publishes its side-effect event and resolves
ResolveCore(c) ==
  LET call == calls[c]
      fx   == SideEffect(call.command.inner.event) IN
  /\ call.pc = "coreAwait"
  /\ events' = addEvent(events, fx)
  /\ added' = Append(added, fx)
  /\ calls' = [calls EXCEPT ![c] =
        [call EXCEPT !.trace = Append(@, Step("end", "core", NoHook, 1)),
                     !.published = Append(@, fx),
                     !.pc = "post"]]
  /\ states' = WriteState(c, "core", 1)
  /\ UNCHANGED <<builderVars, clientVars, containerVars>>

\* (variant: the post-hook loop sits in a finally block)
ThrowCoreThenPost(c) ==
  LET call == calls[c] IN
  /\ call.pc = "coreAwait"
  /\ calls' = [calls EXCEPT ![c] =
        [call EXCEPT !.trace = Append(@, Step("throw", "core", NoHook, 1)),
                     !.error = <<"core", 1>>,
                     !.pc = "post"]]
  /\ UNCHANGED <<builderVars, events, states, added, clientVars, containerVars>>

\* (variant: the command publishes its event and then throws)
ThrowCoreAfterPublish(c) ==
  LET call == calls[c]
      fx   == SideEffect(call.command.inner.event) IN
  /\ call.pc = "coreAwait"
  /\ events' = addEvent(events, fx)
  /\ added' = Append(added, fx)
  /\ calls' = [calls EXCEPT ![c] =
        [call EXCEPT !.trace = Append(@, Step("throw", "core", NoHook, 1)),
                     !.published = Append(@, fx),
                     !.error = <<"core", 1>>,
                     !.pc = Propagate("post")]]
  /\ UNCHANGED <<builderVars, states, clientVars, containerVars>>

\* the command throws (before it publishes anything)
ThrowCore(c) ==
  LET call == calls[c] IN
  /\ call.pc = "coreAwait"
  /\ calls' = [calls EXCEPT ![c] =
        [call EXCEPT !.trace = Append(@, Step("throw", "core", NoHook, 1)),
                     !.error = <<"core", 1>>,
                     !.pc = Propagate("post")]]
  /\ UNCHANGED <<builderVars, events, states, added, clientVars, containerVars>>

\* wrapWithHooks.invoke, post-hook loop: the next post-hook is called
InvokePostHook(c) ==
  LET call == calls[c]
      hooks == postInvokeHooks[call.command.this] IN
  /\ call.pc = "post"
  /\ call.nPost < Len(hooks)
  /\ calls' = [calls EXCEPT ![c] =
        [call EXCEPT !.nPost = @ + 1,
                     !.hookArgs = Append(@, HookArg(call).commandId),
                     !.trace = Append(@, Step("start", "post", hooks[call.nPost + 1], call.nPost + 1)),
                     !.seen = Append(@, Seen(call, "post", call.nPost + 1)),
                     !.pc = Await("postAwait", "post")]]
  /\ UNCHANGED <<builderVars, events, states, added, clientVars, containerVars>>

ResolvePostHook(c) ==
  LET call == calls[c]
      hooks == postInvokeHooks[call.command.this] IN
  /\ call.pc = "postAwait"
  /\ calls' = [calls EXCEPT ![c] =
        [call EXCEPT !.trace = Append(@, Step("end", "post", hooks[call.nPost], call.nPost)),
                     !.pc = "post"]]
  /\ states' = WriteState(c, "post", call.nPost)
  /\ UNCHANGED <<builderVars, events, added, clientVars, containerVars>>

ThrowPostHook(c) ==
  LET call == calls[c]
      hooks == postInvokeHooks[call.command.this] IN
  /\ call.pc = "postAwait"
  /\ calls' = [calls EXCEPT ![c] =
        [call EXCEPT !.trace = Append(@, Step("throw", "post", hooks[call.nPost], call.nPost)),
                     !.error = <<"post", call.nPost>>,
                     !.pc = Propagate("post")]]
  /\ UNCHANGED <<builderVars, events, states, added, clientVars, containerVars>>

\* (variant: the Mediator empties the collector when a call is done)
CompleteConsume(c) ==
  LET call == calls[c]
      hooks == postInvokeHooks[call.command.this] IN
  /\ call.pc = "post"
  /\ call.nPost >= Len(hooks)
  /\ calls' = [calls EXCEPT ![c] = [call EXCEPT !.pc = "completed", !.promise = "resolved"]]
  /\ events' = << >>
  /\ UNCHANGED <<builderVars, states, added, clientVars, containerVars>>

\* the post-hook loop is over: invoke resolves, the try block ends and the
\* promise returned by processEvent resolves
Complete(c) ==
  LET call == calls[c]
      hooks == postInvokeHooks[call.command.this] IN
  /\ call.pc = "post"
  /\ call.nPost >= Len(hooks)
  /\ calls' = [calls EXCEPT ![c] = [call EXCEPT !.pc = "completed", !.promise = "resolved"]]
  /\ UNCHANGED <<builderVars, events, states, added, clientVars, containerVars>>

\* (variant: the catch block reports the error and throws it again)
handleErrorRethrow(c) ==
  LET call == calls[c] IN
  /\ call.pc = "catch"
  /\ calls' = [calls EXCEPT ![c] =
        [call EXCEPT !.handled = Append(@, [event |-> call.event, error |-> call.error]),
                     !.pc = "errorHandled", !.promise = "rejected"]]
  /\ UNCHANGED <<builderVars, events, states, added, clientVars, containerVars>>

\* (variant: handleError runs the command again)
handleErrorRetry(c) ==
  LET call == calls[c] IN
  /\ call.pc = "catch"
  /\ calls' = [calls EXCEPT ![c] =
        [call EXCEPT !.handled = Append(@, [event |-> call.event, error |-> call.error]),
                     !.nPre = 0, !.nPost = 0,
                     !.pc = IF call.command = NoCommand THEN "errorHandled" ELSE "pre",
                     !.promise = IF call.command = NoCommand THEN "resolved" ELSE "pending"]]
  /\ UNCHANGED <<builderVars, events, states, added, clientVars, containerVars>>

\* catch (error) { await this.handleError(event, error) }: the error is
\* reported and the promise returned by processEvent resolves
handleError(c) ==
  LET call == calls[c] IN
  /\ call.pc = "catch"
  /\ calls' = [calls EXCEPT ![c] =
        [call EXCEPT !.handled = Append(@, [event |-> call.event, error |-> call.error]),
                     !.pc = "errorHandled", !.promise = "resolved"]]
  /\ UNCHANGED <<builderVars, events, states, added, clientVars, containerVars>>

\* ------------------------------------------------- the caller and the collector
\* FifoEventCollector.getEvents: return [...this.events], a new array
getEventsAlias(evs) == [held |-> TRUE, items |-> evs, alias |-> TRUE]

getEvents(evs) ==
  [held |-> TRUE, items |-> [i \in 1..Len(evs) |-> evs[i]], alias |-> FALSE]

\* FifoEventCollector.clear: this.events = []
clear(evs) == << >>

\* events a caller or a command may pass to addEvent
SampleEvents == {SideEffect(Event(c, "T1")) : c \in 1..2}

\* what the caller can do to an array it holds
ArrayOps == {"push", "pop", "reverse"}

Mutated(items, op) ==
  CASE op = "push" -> Append(items, SideEffect(Event(1, "T2")))
    [] op = "pop" -> SubSeq(items, 1, Len(items) - 1)
    [] op = "reverse" -> [i \in 1..Len(items) |-> items[Len(items) + 1 - i]]

\* collector.addEvent(e); an array that is the collector's own sees the push
CollectorAdd(e) ==
  /\ Len(ops) < MaxOps
  /\ events' = addEvent(events, e)
  /\ added' = Append(added, e)
  /\ returned' = IF returned.alias THEN [returned EXCEPT !.items = events'] ELSE returned
  /\ ops' = Append(ops, "add")
  /\ UNCHANGED <<builderVars, calls, states, containerVars>>

\* (variant: getEvents hands the events over and empties the collector)
CollectorGetDrain ==
  /\ Len(ops) < MaxOps
  /\ returned' = getEvents(events)
  /\ events' = << >>
  /\ ops' = Append(ops, "get")
  /\ UNCHANGED <<builderVars, calls, states, added, containerVars>>

\* const sideEffects = collector.getEvents()
CollectorGet ==
  /\ Len(ops) < MaxOps
  /\ returned' = getEvents(events)
  /\ ops' = Append(ops, "get")
  /\ UNCHANGED <<builderVars, calls, states, events, added, containerVars>>

\* collector.clear(): this.events is bound to a new array, so an array that
\* was the collector's own no longer is
CollectorClear ==
  /\ Len(ops) < MaxOps
  /\ events' = clear(events)
  /\ added' = << >>
  /\ returned' = [returned EXCEPT !.alias = FALSE]
  /\ ops' = Append(ops, "clear")
  /\ UNCHANGED <<builderVars, calls, states, containerVars>>

\* the caller changes the array it got from getEvents
CallerMutate(op) ==
  /\ Len(ops) < MaxOps
  /\ returned.held
  /\ returned' = [returned EXCEPT !.items = Mutated(@, op)]
  /\ events' = IF returned.alias THEN returned'.items ELSE events
  /\ ops' = Append(ops, "mutate")
  /\ UNCHANGED <<builderVars, calls, states, added, containerVars>>

NextCollector ==
  \/ \E e \in SampleEvents : CollectorAdd(e)
  \/ CollectorGet
  \/ CollectorClear
  \/ \E op \in ArrayOps : CallerMutate(op)

SpecCollector == Init /\ [][NextCollector]_vars

\* The caller passes a function object of its own to every with*Hook call
\* (each create*Hook call returns a new closure) and to every registration
\* (each factory is a new arrow function): hook k is the one passed to the
\* call that constructs builder k, factory k the one passed to the k-th
\* registration.
NewHook == nBuilders + 1

NewFactory == nRegs + 1

\* the caller awaits each processEvent before it submits the next event
\* (await manager.processEvent(...) in runRepRallyDemo)
Terminal(c) == calls[c].pc \in {"completed", "errorHandled"}

Awaited(c) == \A d \in 1..(c-1) : Terminal(d)

Next ==
  \/ \E b \in Builders, t \in Types : registerCommandFactory(b, t, NewFactory)
  \/ \E b \in Builders : withPreInvokeHook(b, NewHook)
  \/ \E b \in Builders : withPostInvokeHook(b, NewHook)
  \/ \E c \in Calls, b \in Builders, t \in Types, ft \in BOOLEAN :
        Awaited(c) /\ processEvent(c, b, t, ft)
  \/ \E c \in Calls : InvokePreHook(c)
  \/ \E c \in Calls : ResolvePreHook(c)
  \/ \E c \in Calls : ThrowPreHook(c)
  \/ \E c \in Calls : InvokeCore(c)
  \/ \E c \in Calls : ResolveCore(c)
  \/ \E c \in Calls : ThrowCore(c)
  \/ \E c \in Calls : InvokePostHook(c)
  \/ \E c \in Calls : ResolvePostHook(c)
  \/ \E c \in Calls : ThrowPostHook(c)
  \/ \E c \in Calls : Complete(c)
  \/ \E c \in Calls : handleError(c)

Spec == Init /\ [][Next]_vars

\* ------------------------------------------------------- calls in flight together
\* A capability stack as the demo assembles it: the root builder with one
\* factory registered, a builder derived from it with a pre-hook, and one
\* derived from that with a post-hook.
InitConc ==
  /\ nBuilders = 3
  /\ preInvokeHooks = [b \in Builders |-> IF b \in {2, 3} THEN <<2>> ELSE << >>]
  /\ postInvokeHooks = [b \in Builders |-> IF b = 3 THEN <<3>> ELSE << >>]
  /\ commandFactories =
       [b \in Builders |-> IF b <= 3 THEN MapSet(EmptyMap, "T1", 1) ELSE EmptyMap]
  /\ origin =
       [b \in Builders |->
          CASE b = 2 -> [parent |-> 1, kind |-> "pre", hook |-> 2]
            [] b = 3 -> [parent |-> 2, kind |-> "post", hook |-> 3]
            [] OTHER -> [parent |-> 0, kind |-> "root", hook |-> NoHook]]
  /\ registered =
       [b \in Builders |-> [t \in Types |->
          IF b <= 3 /\ t = "T1" THEN <<1>> ELSE << >>]]
  /\ nRegs = 1
  /\ calls = [c \in 1..MaxConc |-> IdleCall]
  /\ events = << >>
  /\ states = [o \in 0..MaxConc |-> << >>]
  /\ added = << >>
  /\ returned = NoArray
  /\ ops = << >>
  /\ container = NewContainer
  /\ resolution = NoResolution

\* an event a command publishes before its last one (a command may call
\* addEvent any number of times)
ExtraEffect(ev, n) == [SideEffect(ev) EXCEPT !.id = <<"more", <<"n", n>>>>]

\* the running command calls addEvent and goes on
PublishMore(c) ==
  LET call == calls[c]
      fx   == ExtraEffect(call.command.inner.event, Len(call.published) + 1) IN
  /\ call.pc = "coreAwait"
  /\ Len(call.published) < MaxExtra
  /\ events' = addEvent(events, fx)
  /\ added' = Append(added, fx)
  /\ calls' = [calls EXCEPT ![c] = [call EXCEPT !.published = Append(@, fx)]]
  /\ UNCHANGED <<builderVars, states, clientVars, containerVars>>

ConcCalls == 1..MaxConc

\* (variant: a call is accepted only when the calls before it have ended)
Serialized(c) == \A d \in 1..(c-1) : calls[d].pc \in {"completed", "errorHandled"}

\* calls are numbered in the order they are made
InOrder(c) == \A d \in 1..(c-1) : calls[d].pc # "idle"

\* nothing serializes processEvent calls: the caller may make one at any time
NextConc ==
  \/ \E c \in ConcCalls, b \in Builders, t \in Types, ft \in BOOLEAN :
        InOrder(c) /\ processEvent(c, b, t, ft)
  \/ \E c \in ConcCalls : InvokePreHook(c)
  \/ \E c \in ConcCalls : ResolvePreHook(c)
  \/ \E c \in ConcCalls : ThrowPreHook(c)
  \/ \E c \in ConcCalls : InvokeCore(c)
  \/ \E c \in ConcCalls : PublishMore(c)
  \/ \E c \in ConcCalls : ResolveCore(c)
  \/ \E c \in ConcCalls : ThrowCore(c)
  \/ \E c \in ConcCalls : InvokePostHook(c)
  \/ \E c \in ConcCalls : ResolvePostHook(c)
  \/ \E c \in ConcCalls : ThrowPostHook(c)
  \/ \E c \in ConcCalls : Complete(c)
  \/ \E c \in ConcCalls : handleError(c)

SpecConc == InitConc /\ [][NextConc]_vars

\* the steps of one call once it has been made: a hook or the command is
\* called, the awaited one settles, invoke returns, the catch block runs
CallStep(c) ==
  \/ InvokePreHook(c) \/ ResolvePreHook(c) \/ ThrowPreHook(c)
  \/ InvokeCore(c) \/ ResolveCore(c) \/ ThrowCore(c)
  \/ InvokePostHook(c) \/ ResolvePostHook(c) \/ ThrowPostHook(c)
  \/ Complete(c) \/ handleError(c)

NextLive ==
  \/ \E c \in ConcCalls, b \in Builders, t \in Types, ft \in BOOLEAN :
        InOrder(c) /\ processEvent(c, b, t, ft)
  \/ \E c \in ConcCalls : InvokePreHook(c)
  \/ \E c \in ConcCalls : ResolvePreHook(c)
  \/ \E c \in ConcCalls : ThrowPreHook(c)
  \/ \E c \in ConcCalls : InvokeCore(c)
  \/ \E c \in ConcCalls : ResolveCore(c)
  \/ \E c \in ConcCalls : ThrowCore(c)
  \/ \E c \in ConcCalls : InvokePostHook(c)
  \/ \E c \in ConcCalls : ResolvePostHook(c)
  \/ \E c \in ConcCalls : ThrowPostHook(c)
  \/ \E c \in ConcCalls : Complete(c)
  \/ \E c \in ConcCalls : handleError(c)

\* Every hook and every command that was called settles, and the scheduler
\* runs every continuation that is ready: a call that can take a step
\* eventually takes one.
SpecLive == InitConc /\ [][NextLive]_vars /\ \A c \in ConcCalls : WF_vars(CallStep(c))

\* the promise a call is awaiting never settles: the call stays suspended
\* (nothing times an await out)
AwaitPcs == {"preAwait", "coreAwait", "postAwait"}

NeverSettles(c) ==
  /\ calls[c].pc \in AwaitPcs
  /\ calls' = [calls EXCEPT ![c].pc = "stalled"]
  /\ UNCHANGED <<builderVars, events, states, added, clientVars, containerVars>>

NextStall ==
  \/ \E c \in ConcCalls, b \in Builders, t \in Types, ft \in BOOLEAN :
        InOrder(c) /\ processEvent(c, b, t, ft)
  \/ \E c \in ConcCalls : InvokePreHook(c)
  \/ \E c \in ConcCalls : ResolvePreHook(c)
  \/ \E c \in ConcCalls : ThrowPreHook(c)
  \/ \E c \in ConcCalls : InvokeCore(c)
  \/ \E c \in ConcCalls : ResolveCore(c)
  \/ \E c \in ConcCalls : ThrowCore(c)
  \/ \E c \in ConcCalls : InvokePostHook(c)
  \/ \E c \in ConcCalls : ResolvePostHook(c)
  \/ \E c \in ConcCalls : ThrowPostHook(c)
  \/ \E c \in ConcCalls : Complete(c)
  \/ \E c \in ConcCalls : handleError(c)
  \/ \E c \in ConcCalls : NeverSettles(c)

\* an awaited hook or command may never settle; ready continuations are run
SpecStall == InitConc /\ [][NextStall]_vars /\ \A c \in ConcCalls : WF_vars(CallStep(c))

\* ------------------------------------------------------------- DIContainer
\* (variant: the instance is cached whatever the lifetime)
resolveCacheAll(c, id, runThrows, n) ==
  LET definition == c.services[id].def
      cached == c.instances[id].has
      ran == IF definition.useClass # 0 THEN "class"
             ELSE IF definition.useFactory # 0 THEN "factory" ELSE "none"
      instance ==
        IF definition.useClass # 0 THEN [kind |-> "object", of |-> definition.useClass, n |-> n]
        ELSE IF definition.useFactory # 0
        THEN [kind |-> "made", of |-> definition.useFactory, n |-> n]
        ELSE [kind |-> "value", of |-> 0, n |-> 0]
  IN
  IF ~c.services[id].registered
  THEN [threw |-> TRUE, error |-> "Service not registered", ran |-> "none",
        result |-> NoInstance, instances |-> c.instances]
  ELSE IF cached
  THEN [threw |-> FALSE, error |-> "none", ran |-> "none",
        result |-> c.instances[id].value, instances |-> c.instances]
  ELSE IF ran # "none" /\ runThrows
  THEN [threw |-> TRUE, error |-> "thrown by the constructor or factory", ran |-> ran,
        result |-> NoInstance, instances |-> c.instances]
  ELSE IF ran = "none" /\ definition.useValue # "value"
  THEN [threw |-> TRUE, error |-> "Invalid service definition", ran |-> "none",
        result |-> NoInstance, instances |-> c.instances]
  ELSE [threw |-> FALSE, error |-> "none", ran |-> ran, result |-> instance,
        instances |-> [c.instances EXCEPT ![id] = [has |-> TRUE, value |-> instance]]]

\* (variant: the cache is never consulted)
resolveNoCache(c, id, runThrows, n) ==
  LET definition == c.services[id].def
      ran == IF definition.useClass # 0 THEN "class"
             ELSE IF definition.useFactory # 0 THEN "factory" ELSE "none"
      instance ==
        IF definition.useClass # 0 THEN [kind |-> "object", of |-> definition.useClass, n |-> n]
        ELSE IF definition.useFactory # 0
        THEN [kind |-> "made", of |-> definition.useFactory, n |-> n]
        ELSE [kind |-> "value", of |-> 0, n |-> 0]
  IN
  IF ~c.services[id].registered
  THEN [threw |-> TRUE, error |-> "Service not registered", ran |-> "none",
        result |-> NoInstance, instances |-> c.instances]
  ELSE IF ran # "none" /\ runThrows
  THEN [threw |-> TRUE, error |-> "thrown by the constructor or factory", ran |-> ran,
        result |-> NoInstance, instances |-> c.instances]
  ELSE IF ran = "none" /\ definition.useValue # "value"
  THEN [threw |-> TRUE, error |-> "Invalid service definition", ran |-> "none",
        result |-> NoInstance, instances |-> c.instances]
  ELSE [threw |-> FALSE, error |-> "none", ran |-> ran, result |-> instance,
        instances |->
          IF definition.lifetime = "singleton"
          THEN [c.instances EXCEPT ![id] = [has |-> TRUE, value |-> instance]]
          ELSE c.instances]

\* (variant: an identifier that is not registered is given a singleton
\* definition of class 1 on the fly)
resolveAutoRegister(c, id, runThrows, n) ==
  LET definition == IF c.services[id].registered THEN c.services[id].def
                    ELSE Definition(1, 0, "absent", "singleton")
      cached == definition.lifetime = "singleton" /\ c.instances[id].has
      ran == IF definition.useClass # 0 THEN "class"
             ELSE IF definition.useFactory # 0 THEN "factory" ELSE "none"
      instance ==
        IF definition.useClass # 0 THEN [kind |-> "object", of |-> definition.useClass, n |-> n]
        ELSE IF definition.useFactory # 0
        THEN [kind |-> "made", of |-> definition.useFactory, n |-> n]
        ELSE [kind |-> "value", of |-> 0, n |-> 0]
  IN
  IF cached
  THEN [threw |-> FALSE, error |-> "none", ran |-> "none",
        result |-> c.instances[id].value, instances |-> c.instances]
  ELSE IF ran # "none" /\ runThrows
  THEN [threw |-> TRUE, error |-> "thrown by the constructor or factory", ran |-> ran,
        result |-> NoInstance, instances |-> c.instances]
  ELSE IF ran = "none" /\ definition.useValue # "value"
  THEN [threw |-> TRUE, error |-> "Invalid service definition", ran |-> "none",
        result |-> NoInstance, instances |-> c.instances]
  ELSE [threw |-> FALSE, error |-> "none", ran |-> ran, result |-> instance,
        instances |->
          IF definition.lifetime = "singleton"
          THEN [c.instances EXCEPT ![id] = [has |-> TRUE, value |-> instance]]
          ELSE c.instances]

\* (variant: a useValue that is given is accepted, falsy or not)
resolveDefined(c, id, runThrows, n) ==
  LET definition == c.services[id].def
      cached == definition.lifetime = "singleton" /\ c.instances[id].has
      ran == IF definition.useClass # 0 THEN "class"
             ELSE IF definition.useFactory # 0 THEN "factory" ELSE "none"
      instance ==
        IF definition.useClass # 0 THEN [kind |-> "object", of |-> definition.useClass, n |-> n]
        ELSE IF definition.useFactory # 0
        THEN [kind |-> "made", of |-> definition.useFactory, n |-> n]
        ELSE [kind |-> "value", of |-> 0, n |-> 0]
  IN
  IF ~c.services[id].registered
  THEN [threw |-> TRUE, error |-> "Service not registered", ran |-> "none",
        result |-> NoInstance, instances |-> c.instances]
  ELSE IF cached
  THEN [threw |-> FALSE, error |-> "none", ran |-> "none",
        result |-> c.instances[id].value, instances |-> c.instances]
  ELSE IF ran # "none" /\ runThrows
  THEN [threw |-> TRUE, error |-> "thrown by the constructor or factory", ran |-> ran,
        result |-> NoInstance, instances |-> c.instances]
  ELSE IF ran = "none" /\ definition.useValue = "absent"
  THEN [threw |-> TRUE, error |-> "Invalid service definition", ran |-> "none",
        result |-> NoInstance, instances |-> c.instances]
  ELSE [threw |-> FALSE, error |-> "none", ran |-> ran, result |-> instance,
        instances |->
          IF definition.lifetime = "singleton"
          THEN [c.instances EXCEPT ![id] = [has |-> TRUE, value |-> instance]]
          ELSE c.instances]

\* DIContainer.resolve on container c: whether it throws and with what, which
\* of the class constructor and the factory it ran, what it returns, and the
\* instances map afterwards. runThrows: the constructor or factory, if one is
\* run, throws; n: the number that tells the new instance from the others.
resolve(c, id, runThrows, n) ==
  LET definition == c.services[id].def
      cached == definition.lifetime = "singleton" /\ c.instances[id].has
      ran == IF definition.useClass # 0 THEN "class"
             ELSE IF definition.useFactory # 0 THEN "factory" ELSE "none"
      instance ==
        IF definition.useClass # 0 THEN [kind |-> "object", of |-> definition.useClass, n |-> n]
        ELSE IF definition.useFactory # 0
        THEN [kind |-> "made", of |-> definition.useFactory, n |-> n]
        ELSE [kind |-> "value", of |-> 0, n |-> 0]
  IN
  IF ~c.services[id].registered
  THEN [threw |-> TRUE, error |-> "Service not registered", ran |-> "none",
        result |-> NoInstance, instances |-> c.instances]
  ELSE IF cached
  THEN [threw |-> FALSE, error |-> "none", ran |-> "none",
        result |-> c.instances[id].value, instances |-> c.instances]
  ELSE IF ran # "none" /\ runThrows
  THEN [threw |-> TRUE, error |-> "thrown by the constructor or factory", ran |-> ran,
        result |-> NoInstance, instances |-> c.instances]
  ELSE IF ran = "none" /\ definition.useValue # "value"
  THEN [threw |-> TRUE, error |-> "Invalid service definition", ran |-> "none",
        result |-> NoInstance, instances |-> c.instances]
  ELSE [threw |-> FALSE, error |-> "none", ran |-> ran, result |-> instance,
        instances |->
          IF definition.lifetime = "singleton"
          THEN [c.instances EXCEPT ![id] = [has |-> TRUE, value |-> instance]]
          ELSE c.instances]

\* the definitions the caller registers
ServiceDefs ==
  { Definition(1, 0, "absent", "singleton"),
    Definition(2, 0, "absent", "singleton"),
    Definition(1, 0, "absent", "transient"),
    Definition(0, 1, "absent", "undefined"),
    Definition(0, 2, "absent", "singleton"),
    Definition(0, 0, "value", "singleton"),
    Definition(0, 0, "falsy", "transient"),
    Definition(1, 1, "value", "transient"),
    Definition(0, 1, "value", "transient"),
    Definition(0, 0, "absent", "transient") }

\* (variant: registering an identifier again drops its cached instance)
RegisterInvalidate(id, definition) ==
  /\ container' = [container EXCEPT
                     !.services[id] = [registered |-> TRUE, def |-> definition],
                     !.instances[id] = NotCached]
  /\ resolution' = [resolution EXCEPT
                      !.first[id] = NoInstance, !.runs[id] = 0, !.completed[id] = 0,
                      !.last = [NoOutcome EXCEPT !.op = "register", !.id = id]]
  /\ UNCHANGED <<builderVars, calls, events, states, added, clientVars>>

\* container.register(id, definition): services.set(id, definition)
Register(id, definition) ==
  /\ container' = [container EXCEPT
                     !.services[id] = [registered |-> TRUE, def |-> definition]]
  /\ resolution' = [resolution EXCEPT
                      !.first[id] = NoInstance, !.runs[id] = 0, !.completed[id] = 0,
                      !.last = [NoOutcome EXCEPT !.op = "register", !.id = id]]
  /\ UNCHANGED <<builderVars, calls, events, states, added, clientVars>>

\* container.resolve(id)
Resolve(id, runThrows) ==
  LET r == resolve(container, id, runThrows, resolution.built + 1) IN
  /\ r.ran # "none" => resolution.built < MaxInstances
  /\ container' = [container EXCEPT !.instances = r.instances]
  /\ resolution' =
       [resolution EXCEPT
          !.first[id] = IF @ = NoInstance /\ ~r.threw THEN r.result ELSE @,
          !.runs[id] = IF r.ran # "none" THEN @ + 1 ELSE @,
          !.completed[id] = IF r.ran # "none" /\ ~r.threw THEN @ + 1 ELSE @,
          !.built = IF r.ran # "none" THEN @ + 1 ELSE @,
          !.last = [op |-> "resolve", id |-> id, threw |-> r.threw, error |-> r.error,
                    ran |-> r.ran, result |-> r.result]]
  /\ UNCHANGED <<builderVars, calls, events, states, added, clientVars>>

\* container.clearInstances(): instances.clear()
ClearInstances ==
  /\ container' = [container EXCEPT !.instances = [id \in Ids |-> NotCached]]
  /\ resolution' = [resolution EXCEPT
                      !.first = [id \in Ids |-> NoInstance],
                      !.runs = [id \in Ids |-> 0],
                      !.completed = [id \in Ids |-> 0],
                      !.last = [NoOutcome EXCEPT !.op = "clear"]]
  /\ UNCHANGED <<builderVars, calls, events, states, added, clientVars>>

NextContainer ==
  \/ \E id \in Ids, definition \in ServiceDefs : Register(id, definition)
  \/ \E id \in Ids, runThrows \in BOOLEAN : Resolve(id, runThrows)
  \/ ClearInstances

SpecContainer == Init /\ [][NextContainer]_vars

\* ------------------------------------------------------------------ the demo
\* The services, hooks and commands of the repository and the capability
\* stacks runRepRallyDemo assembles from them.
UnitRevenue == 3000       \* price * estimatedVolume of one product of the demo

\* a payload: which fields it has (productList: whether it is an array, how
\* many products, whether the AI hook has rewritten them)
NoList == [isArray |-> FALSE, n |-> 0, enhanced |-> FALSE]

List(n) == [isArray |-> TRUE, n |-> n, enhanced |-> FALSE]

Payload(storeId, matchId, list, revenue) ==
  [storeId |-> storeId, matchId |-> matchId, repId |-> FALSE, productList |-> list,
   potentialRevenue |-> revenue, estimatedCommission |-> 0]

\* BasicAuthService.authorizedSources
AuthorizedSources ==
  [s \in {"rep-portal", "matching-service", "brand-portal", "store-portal"} |->
     CASE s = "rep-portal" -> {"MATCH_STORE_TO_PRODUCT", "CANCEL_MATCH", "ASSIGN_REP"}
       [] s = "matching-service" -> {"STORE_MATCHED", "MATCH_UPDATED"}
       [] s = "brand-portal" -> {"PRODUCT_ADDED", "PRODUCT_UPDATED"}
       [] s = "store-portal" -> {"STORE_CONFIRMED_MATCH", "STORE_REJECTED_MATCH"}]

\* (variant: a source the table does not know is let through)
checkAuthorizationOpen(source, eventType) ==
  IF source \in DOMAIN AuthorizedSources
  THEN eventType \in AuthorizedSources[source] ELSE TRUE

\* BasicAuthService.checkAuthorization
checkAuthorization(source, eventType) ==
  LET allowedEvents == IF source \in DOMAIN AuthorizedSources
                       THEN AuthorizedSources[source] ELSE {} IN
  eventType \in allowedEvents

\* (variant: a type the validator has no rule for is refused)
validateStrict(eventType, payload) ==
  CASE eventType = "MATCH_STORE_TO_PRODUCT" ->
         payload.storeId /\ payload.productList.isArray /\ payload.productList.n > 0
    [] eventType = "STORE_MATCHED" -> payload.matchId /\ payload.storeId
    [] eventType = "ASSIGN_REP" -> payload.matchId /\ payload.repId
    [] OTHER -> FALSE

\* JSONSchemaValidator.validate
validate(eventType, payload) ==
  CASE eventType = "MATCH_STORE_TO_PRODUCT" ->
         payload.storeId /\ payload.productList.isArray /\ payload.productList.n > 0
    [] eventType = "STORE_MATCHED" -> payload.matchId /\ payload.storeId
    [] eventType = "ASSIGN_REP" -> payload.matchId /\ payload.repId
    [] OTHER -> TRUE

\* how runRepRallyDemo derives its builders: builder k is made by the k-th
\* row (the root, then enhancedBuilder, basicBuilder, securityBuilder and
\* analyticsBuilder), hook k is the closure passed to that call
DemoSteps ==
  << [parent |-> 0,  kind |-> "root", hook |-> "none"],
     [parent |-> 1,  kind |-> "pre",  hook |-> "logging"],
     [parent |-> 2,  kind |-> "pre",  hook |-> "validation"],
     [parent |-> 3,  kind |-> "pre",  hook |-> "auth"],
     [parent |-> 4,  kind |-> "pre",  hook |-> "ai"],
     [parent |-> 5,  kind |-> "pre",  hook |-> "commission"],
     [parent |-> 6,  kind |-> "post", hook |-> "metrics"],
     [parent |-> 7,  kind |-> "post", hook |-> "revenue"],
     [parent |-> 1,  kind |-> "pre",  hook |-> "logging"],
     [parent |-> 1,  kind |-> "pre",  hook |-> "auth"],
     [parent |-> 10, kind |-> "pre",  hook |-> "validation"],
     [parent |-> 1,  kind |-> "pre",  hook |-> "logging"],
     [parent |-> 12, kind |-> "pre",  hook |-> "ai"],
     [parent |-> 13, kind |-> "post", hook |-> "metrics"],
     [parent |-> 14, kind |-> "post", hook |-> "revenue"] >>

DemoBuilders == 1..Len(DemoSteps)

\* the builders that transaction managers are made of: the root (no hooks),
\* enhancedBuilder, basicBuilder, securityBuilder, analyticsBuilder
Mediators == {1, 8, 9, 11, 15}

HookKind(h) == DemoSteps[h].hook

\* the hook list of builder b after the chain of with*Hook calls that made it
RECURSIVE DemoHooks(_, _)
DemoHooks(b, kind) ==
  IF DemoSteps[b].kind = "root" THEN << >>
  ELSE IF DemoSteps[b].kind = kind
       THEN SpreadAppend(DemoHooks(DemoSteps[b].parent, kind), b)
       ELSE SpreadCopy(DemoHooks(DemoSteps[b].parent, kind))

DemoTypes == {"MATCH_STORE_TO_PRODUCT", "STORE_MATCHED", "ASSIGN_REP", "REP_CHECKED_IN"}

\* the two registerCommandFactory calls: 1 makes a MatchStoreToProductCommand,
\* 2 a RepCheckIn
DemoFactories ==
  [t \in DemoTypes |->
     CASE t = "MATCH_STORE_TO_PRODUCT" -> 1
       [] t = "STORE_MATCHED" -> 2
       [] OTHER -> NoFactory]

\* the state after the demo has assembled its builders
DemoAssembled ==
  /\ nBuilders = Len(DemoSteps)
  /\ preInvokeHooks = [b \in DemoBuilders |-> DemoHooks(b, "pre")]
  /\ postInvokeHooks = [b \in DemoBuilders |-> DemoHooks(b, "post")]
  /\ commandFactories = [b \in DemoBuilders |-> DemoFactories]
  /\ origin = [b \in DemoBuilders |->
                 [parent |-> DemoSteps[b].parent, kind |-> DemoSteps[b].kind,
                  hook |-> IF b = 1 THEN NoHook ELSE b]]
  /\ registered = [b \in DemoBuilders |-> [t \in DemoTypes |->
                     IF DemoFactories[t] # NoFactory THEN <<DemoFactories[t]>> ELSE << >>]]
  /\ nRegs = 2
  /\ events = << >>
  /\ added = << >>
  /\ returned = NoArray
  /\ ops = << >>
  /\ container = NewContainer
  /\ resolution = NoResolution

InitDemo ==
  /\ DemoAssembled
  /\ calls = [c \in Calls |-> IdleCall]
  /\ states = [o \in 0..MaxCalls |-> << >>]

\* events a caller may submit
InputTypes == {"MATCH_STORE_TO_PRODUCT", "STORE_MATCHED", "ASSIGN_REP"}

InputSources == {"rep-portal", "matching-service", "unknown"}

InputPayloads ==
  { Payload(TRUE, FALSE, List(2), 0),      \* storeId and two products
    Payload(TRUE, FALSE, NoList, 0),       \* no productList
    Payload(TRUE, FALSE, List(0), 0),      \* empty productList
    Payload(TRUE, TRUE, NoList, 6000),     \* matchId, storeId, potentialRevenue
    Payload(TRUE, TRUE, NoList, 0) }       \* matchId, storeId

DemoEvent(c, t, source, payload) ==
  [id |-> <<"ev", c>>, type |-> t, correlationId |-> <<"corr", c>>,
   causationId |-> NoCause, source |-> source, payload |-> payload]

DemoEvents(c) ==
  {DemoEvent(c, t, s, p) : t \in InputTypes, s \in InputSources, p \in InputPayloads}

\* the id of the next event a command makes (Math.random(): a new value)
FreshId == <<"gen", Len(added) + 1>>

\* (variant: the command starts a correlation of its own)
StoreMatchedNewCorrelation(ev, id) ==
  [id |-> id, type |-> "STORE_MATCHED",
   correlationId |-> <<"corr", id[2] + 100>>, causationId |-> ev.id,
   source |-> "matching-service",
   payload |-> Payload(ev.payload.storeId, TRUE, NoList,
                       ev.payload.productList.n * UnitRevenue)]

\* (variant: the command stamps the event with the source of its trigger)
StoreMatchedSameSource(ev, id) ==
  [id |-> id, type |-> "STORE_MATCHED",
   correlationId |-> ev.correlationId, causationId |-> ev.id,
   source |-> ev.source,
   payload |-> Payload(ev.payload.storeId, TRUE, NoList,
                       ev.payload.productList.n * UnitRevenue)]

\* the event MatchStoreToProductCommand.invoke passes to addEvent
StoreMatched(ev, id) ==
  [id |-> id, type |-> "STORE_MATCHED",
   correlationId |-> ev.correlationId, causationId |-> ev.id,
   source |-> "matching-service",
   payload |-> Payload(ev.payload.storeId, TRUE, NoList,
                       ev.payload.productList.n * UnitRevenue)]

\* const estimatedCommission = (potentialRevenue || 1000) * commissionRate,
\* commissionRate being the constant 0.15 of both rep commands
EstimatedCommission(ev) ==
  ((IF ev.payload.potentialRevenue # 0 THEN ev.payload.potentialRevenue ELSE 1000) * 15) \div 100

\* what createCommissionCalculatorHook puts into context.state: the rate of
\* the tier of the revenue (in percent) and the commission at that rate
HookCommission(ev) ==
  LET baseRevenue == IF ev.payload.potentialRevenue # 0
                     THEN ev.payload.potentialRevenue ELSE 1000
      commissionRate == IF baseRevenue > 10000 THEN 20
                        ELSE IF baseRevenue > 5000 THEN 15 ELSE 10
  IN [commissionRate |-> commissionRate,
      projectedCommission |-> (baseRevenue * commissionRate) \div 100]

\* context.state.commissionRate = ...; context.state.projectedCommission = ...
WriteCommission(c, k, ev) ==
  [states EXCEPT ![StepContext(calls[c]).state] =
     Append(@, [by |-> c, phase |-> "pre", k |-> k,
                commissionRate |-> HookCommission(ev).commissionRate,
                projectedCommission |-> HookCommission(ev).projectedCommission])]

\* the event AssignRepCommand.invoke passes to addEvent
RepAssigned(ev, id) ==
  [id |-> id, type |-> "REP_ASSIGNED",
   correlationId |-> ev.correlationId, causationId |-> ev.id,
   source |-> "rep-assignment-service",
   payload |-> [Payload(ev.payload.storeId, ev.payload.matchId, NoList, 0) EXCEPT
                  !.repId = TRUE,
                  !.estimatedCommission = EstimatedCommission(ev)]]

\* (variant: the command takes the commission a hook has left in the state
\* object of the running call, and its own 15% when there is none)
RepCheckedInHookRate(ev, id) ==
  LET running == {c \in DOMAIN calls : calls[c].pc = "coreAwait"}
      left == UNION {{states[calls[c].context.state][i].projectedCommission :
                        i \in 1..Len(states[calls[c].context.state])} : c \in running}
  IN
  [id |-> id, type |-> "REP_CHECKED_IN",
   correlationId |-> ev.correlationId, causationId |-> ev.id,
   source |-> "rep-check-in-service",
   payload |-> [Payload(ev.payload.storeId, FALSE, NoList, 0) EXCEPT
                  !.repId = TRUE,
                  !.estimatedCommission =
                     IF left # {} THEN CHOOSE x \in left : TRUE
                     ELSE EstimatedCommission(ev)]]

\* the event the rep check-in command passes to addEvent
RepCheckedIn(ev, id) ==
  [id |-> id, type |-> "REP_CHECKED_IN",
   correlationId |-> ev.correlationId, causationId |-> ev.id,
   source |-> "rep-check-in-service",
   payload |-> [Payload(ev.payload.storeId, FALSE, NoList, 0) EXCEPT
                  !.repId = TRUE,
                  !.estimatedCommission = EstimatedCommission(ev)]]

\* whether a pre-hook of the given kind throws on the event of its context
PreHookThrows(kind, ev) ==
  CASE kind = "validation" -> ~validate(ev.type, ev.payload)
    [] kind = "auth" -> ~checkAuthorization(ev.source, ev.type)
    [] OTHER -> FALSE

\* the payload of the context's event after a pre-hook of the given kind:
\* createAIPredictionHook replaces productList by the mapped list
PreHookPayload(kind, ev) ==
  IF kind = "ai" /\ ev.type = "MATCH_STORE_TO_PRODUCT"
  THEN [ev.payload EXCEPT !.productList =
          [isArray |-> TRUE, n |-> ev.payload.productList.n, enhanced |-> TRUE]]
  ELSE ev.payload

\* createCommissionCalculatorHook writes context.state for these types only
PreHookWrites(kind, ev) ==
  kind = "commission" /\ ev.type \in {"ASSIGN_REP", "STORE_MATCHED"}

\* (variant: the context holds a copy of the event)
SetPayloadCopy(call, payload) ==
  [call EXCEPT !.context.event.payload = payload]

\* context.event, the event the factory gave the command and the caller's
\* event are one object: a payload assigned through one is seen through all
SetPayload(call, payload) ==
  [call EXCEPT !.event.payload = payload,
               !.context.event.payload = payload,
               !.command.inner.event.payload = payload]

\* two references to one event object (events are told apart by their ids:
\* every event object the model makes has an id of its own)
SameObject(e1, e2) == e1.id = e2.id

\* manager.processEvent(event) on one of the demo's managers
DemoProcessEvent(c, b, ev) ==
  /\ b \in Mediators
  /\ processEventOf(c, b, ev, FALSE)

\* the awaited pre-hook runs: it throws, or it returns after its effects
RunPreHook(c) ==
  LET call  == calls[c]
      hooks == preInvokeHooks[call.command.this]
      kind  == HookKind(hooks[call.nPre])
      ev    == StepContext(call).event IN
  /\ call.pc = "preAwait"
  /\ IF PreHookThrows(kind, ev)
     THEN ThrowPreHook(c)
     ELSE /\ calls' = [d \in DOMAIN calls |->
                IF d = c
                THEN [SetPayload(call, PreHookPayload(kind, ev)) EXCEPT
                        !.trace = Append(@, Step("end", "pre", hooks[call.nPre], call.nPre)),
                        !.pc = "pre"]
                ELSE IF SameObject(calls[d].event, call.event)
                THEN SetPayload(calls[d], PreHookPayload(kind, ev))
                ELSE calls[d]]
          /\ states' = IF PreHookWrites(kind, ev)
                       THEN WriteCommission(c, call.nPre, ev) ELSE states
          /\ UNCHANGED <<builderVars, events, added, clientVars, containerVars>>

\* (variant: the check-in command takes its rate from context.state and
\* throws when no hook has put one there)
CommandThrowsWithoutRate(factory, ev) ==
  \/ factory = 1 /\ ~ev.payload.productList.isArray
  \/ factory = 2 /\ \A c \in DOMAIN calls :
                       calls[c].pc = "coreAwait" => states[calls[c].context.state] = << >>

\* what the command made by a factory does with its event: the event it
\* publishes, or a throw (productList.length of a missing productList)
CommandThrows(factory, ev) ==
  factory = 1 /\ ~ev.payload.productList.isArray

\* factory 3 (one the demo leaves to its callers) makes an AssignRepCommand
CommandEffect(factory, ev, id) ==
  IF factory = 1 THEN StoreMatched(ev, id)
  ELSE IF factory = 2 THEN RepCheckedIn(ev, id) ELSE RepAssigned(ev, id)

\* the awaited command runs
RunCore(c) ==
  LET call == calls[c]
      cmd  == call.command.inner
      fx   == CommandEffect(cmd.factory, cmd.event, FreshId) IN
  /\ call.pc = "coreAwait"
  /\ IF CommandThrows(cmd.factory, cmd.event)
     THEN ThrowCore(c)
     ELSE /\ events' = addEvent(events, fx)
          /\ added' = Append(added, fx)
          /\ calls' = [calls EXCEPT ![c] =
                [call EXCEPT !.trace = Append(@, Step("end", "core", NoHook, 1)),
                             !.published = Append(@, fx),
                             !.pc = "post"]]
          /\ UNCHANGED <<builderVars, states, clientVars, containerVars>>

\* (variant: the metrics hook counts the events of its own command)
MetricsDataOwn(call) ==
  [eventType |-> call.context.event.type, sideEffects |-> Len(call.published)]

\* the data createMetricsHook passes to metrics.recordExecution (the
\* timestamp left out): sideEffects is getEvents().length of the collector
MetricsData(call) ==
  [eventType |-> StepContext(call).event.type,
   sideEffects |-> Len(getEvents(events).items)]

\* wrapWithHooks.invoke, post-hook loop, with the demo's hooks: the next
\* post-hook is called and runs to its end before the await (the hooks
\* have no await of their own); the metrics hook records its data
CallPostHook(c) ==
  LET call == calls[c]
      hooks == postInvokeHooks[call.command.this] IN
  /\ call.pc = "post"
  /\ call.nPost < Len(hooks)
  /\ calls' = [calls EXCEPT ![c] =
        [call EXCEPT !.nPost = @ + 1,
                     !.hookArgs = Append(@, HookArg(call).commandId),
                     !.trace = Append(@, Step("start", "post", hooks[call.nPost + 1], call.nPost + 1)),
                     !.seen = Append(@, Seen(call, "post", call.nPost + 1)),
                     !.recorded = IF HookKind(hooks[call.nPost + 1]) = "metrics"
                                  THEN Append(@, MetricsData(call)) ELSE @,
                     !.pc = Await("postAwait", "post")]]
  /\ UNCHANGED <<builderVars, events, states, added, clientVars, containerVars>>

\* the awaited post-hook settles (the metrics and revenue hooks return)
RunPostHook(c) ==
  LET call  == calls[c]
      hooks == postInvokeHooks[call.command.this] IN
  /\ call.pc = "postAwait"
  /\ calls' = [calls EXCEPT ![c] =
        [call EXCEPT !.trace = Append(@, Step("end", "post", hooks[call.nPost], call.nPost)),
                     !.pc = "post"]]
  /\ UNCHANGED <<builderVars, events, states, added, clientVars, containerVars>>

NextDemo ==
  \/ \E c \in Calls, b \in DemoBuilders : \E ev \in DemoEvents(c) :
        Awaited(c) /\ DemoProcessEvent(c, b, ev)
  \/ \E c \in Calls : InvokePreHook(c)
  \/ \E c \in Calls : RunPreHook(c)
  \/ \E c \in Calls : InvokeCore(c)
  \/ \E c \in Calls : RunCore(c)
  \/ \E c \in Calls : CallPostHook(c)
  \/ \E c \in Calls : RunPostHook(c)
  \/ \E c \in Calls : Complete(c)
  \/ \E c \in Calls : handleError(c)

SpecDemo == InitDemo /\ [][NextDemo]_vars

\* ------------------------------------------------------------------- chains
\* A root event is processed; then, round after round, the caller reads the
\* collector and submits one of the collected events again (sideEffects[0]
\* in runRepRallyDemo), each call awaited before the next.
ChainCalls == 1..(MaxRounds + 1)

InitChain ==
  /\ DemoAssembled
  /\ calls = [c \in ChainCalls |-> IdleCall]
  /\ states = [o \in 0..(MaxRounds + 1) |-> << >>]

\* await manager.processEvent(sideEffects[i])
Resubmit(c, b, i) ==
  /\ c > 1
  /\ Awaited(c)
  /\ i \in 1..Len(getEvents(events).items)
  /\ DemoProcessEvent(c, b, getEvents(events).items[i])

NextChain ==
  \/ \E b \in DemoBuilders : \E ev \in DemoEvents(1) : DemoProcessEvent(1, b, ev)
  \/ \E c \in ChainCalls, b \in DemoBuilders, i \in 1..(MaxRounds + 1) : Resubmit(c, b, i)
  \/ \E c \in ChainCalls : InvokePreHook(c)
  \/ \E c \in ChainCalls : RunPreHook(c)
  \/ \E c \in ChainCalls : InvokeCore(c)
  \/ \E c \in ChainCalls : RunCore(c)
  \/ \E c \in ChainCalls : CallPostHook(c)
  \/ \E c \in ChainCalls : RunPostHook(c)
  \/ \E c \in ChainCalls : Complete(c)
  \/ \E c \in ChainCalls : handleError(c)

SpecChain == InitChain /\ [][NextChain]_vars

\* ------------------------------------------- the demo's managers, together
\* Calls made on the managers with a metrics hook without awaiting the one
\* before: they share the collector. The caller submits the demo's match
\* event or a STORE_MATCHED event of its own making, which the authorization
\* hook of the full stack turns down.
MetricsStacks == {8, 15}

TogetherEvents(c) ==
  { DemoEvent(c, "MATCH_STORE_TO_PRODUCT", "rep-portal", Payload(TRUE, FALSE, List(2), 0)),
    DemoEvent(c, "STORE_MATCHED", "rep-portal", Payload(TRUE, TRUE, NoList, 6000)) }

InitTogether ==
  /\ DemoAssembled
  /\ calls = [c \in ConcCalls |-> IdleCall]
  /\ states = [o \in 0..MaxConc |-> << >>]

NextTogether ==
  \/ \E c \in ConcCalls, b \in MetricsStacks : \E ev \in TogetherEvents(c) :
        InOrder(c) /\ DemoProcessEvent(c, b, ev)
  \/ \E c \in ConcCalls : InvokePreHook(c)
  \/ \E c \in ConcCalls : RunPreHook(c)
  \/ \E c \in ConcCalls : InvokeCore(c)
  \/ \E c \in ConcCalls : RunCore(c)
  \/ \E c \in ConcCalls : CallPostHook(c)
  \/ \E c \in ConcCalls : RunPostHook(c)
  \/ \E c \in ConcCalls : Complete(c)
  \/ \E c \in ConcCalls : handleError(c)

SpecTogether == InitTogether /\ [][NextTogether]_vars

\* ------------------------------------------------------ rep assignment
\* A caller registers AssignRepCommand for ASSIGN_REP events on the demo's
\* root builder or on its full stack (once on each) and submits events to
\* the two, each call awaited: one stack runs the commission hook before
\* the command, the other runs the command alone.
AssignStacks == {1, 8}

AssignEvents(c) ==
  { DemoEvent(c, "ASSIGN_REP", "rep-portal",
              [Payload(TRUE, TRUE, NoList, revenue) EXCEPT !.repId = TRUE]) :
      revenue \in {0, 6000, 12000} }
  \cup
  { DemoEvent(c, "STORE_MATCHED", "matching-service", Payload(TRUE, TRUE, NoList, revenue)) :
      revenue \in {0, 6000, 12000} }

\* builder.registerCommandFactory("ASSIGN_REP", (event) => new AssignRepCommand(event))
RegisterAssignRep(b) ==
  /\ b \in AssignStacks
  /\ commandFactories[b]["ASSIGN_REP"] = NoFactory
  /\ commandFactories' =
       [commandFactories EXCEPT ![b] = MapSet(@, "ASSIGN_REP", 3)]
  /\ registered' = [registered EXCEPT ![b]["ASSIGN_REP"] = Append(@, 3)]
  /\ nRegs' = nRegs + 1
  /\ UNCHANGED <<nBuilders, preInvokeHooks, postInvokeHooks, origin, calls, events,
               states, added, clientVars, containerVars>>

NextAssign ==
  \/ \E b \in AssignStacks : RegisterAssignRep(b)
  \/ \E c \in ConcCalls, b \in AssignStacks : \E ev \in AssignEvents(c) :
        Awaited(c) /\ DemoProcessEvent(c, b, ev)
  \/ \E c \in ConcCalls : InvokePreHook(c)
  \/ \E c \in ConcCalls : RunPreHook(c)
  \/ \E c \in ConcCalls : InvokeCore(c)
  \/ \E c \in ConcCalls : RunCore(c)
  \/ \E c \in ConcCalls : CallPostHook(c)
  \/ \E c \in ConcCalls : RunPostHook(c)
  \/ \E c \in ConcCalls : Complete(c)
  \/ \E c \in ConcCalls : handleError(c)

SpecAssign == InitTogether /\ [][NextAssign]_vars

\* ------------------------------------------------ the same event, again
\* The caller keeps its event object and, once a processEvent call has
\* returned, hands the same object to processEvent again.
ProcessAgain(c, b) ==
  /\ c > 1
  /\ Awaited(c)
  /\ calls[c - 1].pc # "idle"
  /\ DemoProcessEvent(c, b, calls[c - 1].event)

NextAgain ==
  \/ \E b \in DemoBuilders : \E ev \in DemoEvents(1) : DemoProcessEvent(1, b, ev)
  \/ \E c \in ChainCalls, b \in DemoBuilders : ProcessAgain(c, b)
  \/ \E c \in ChainCalls : InvokePreHook(c)
  \/ \E c \in ChainCalls : RunPreHook(c)
  \/ \E c \in ChainCalls : InvokeCore(c)
  \/ \E c \in ChainCalls : RunCore(c)
  \/ \E c \in ChainCalls : CallPostHook(c)
  \/ \E c \in ChainCalls : RunPostHook(c)
  \/ \E c \in ChainCalls : Complete(c)
  \/ \E c \in ChainCalls : handleError(c)

SpecAgain == InitChain /\ [][NextAgain]_vars

\* --------------------------------------------------- the validation hook
\* The closure createValidationHook returns, applied to a context whose event
\* the caller has chosen: any type, any combination of payload fields.
ValidationTypes ==
  {"MATCH_STORE_TO_PRODUCT", "STORE_MATCHED", "ASSIGN_REP", "REP_CHECKED_IN", "CANCEL_MATCH"}

ValidationPayloads ==
  { [Payload(storeId, matchId, list, 0) EXCEPT !.repId = repId] :
      storeId \in BOOLEAN, matchId \in BOOLEAN, repId \in BOOLEAN,
      list \in {NoList, List(0), List(2)} }

\* a call about to run the hook on the event ev
AtHook(c, ev) ==
  [IdleCall EXCEPT !.pc = "hook", !.event = ev,
                   !.context = [event |-> ev, state |-> NewState(c)]]

InitValidation ==
  /\ DemoAssembled
  /\ calls \in [Calls -> {AtHook(1, DemoEvent(1, t, "rep-portal", p)) :
                            t \in ValidationTypes, p \in ValidationPayloads}]
  /\ states = [o \in 0..MaxCalls |-> << >>]

\* the validation hook's body: validator.validate on the context's event,
\* then a throw or a return
ValidationHook(c) ==
  LET call == calls[c]
      ev   == StepContext(call).event IN
  /\ call.pc = "hook"
  /\ calls' = [calls EXCEPT ![c] =
        IF ~validate(ev.type, ev.payload)
        THEN [call EXCEPT !.pc = "hookThrew", !.error = <<"Invalid event payload", 0>>]
        ELSE [call EXCEPT !.pc = "hookReturned"]]
  /\ UNCHANGED <<builderVars, events, states, added, clientVars, containerVars>>

NextValidation == \E c \in Calls : ValidationHook(c)

SpecValidation == InitValidation /\ [][NextValidation]_vars

\* ====================================================================
\* Properties
\* ====================================================================
\* hooks in the order the with*Hook calls were made along the derivation
\* path of builder b, read from the derivation history
RECURSIVE RegOrder(_, _)
RegOrder(b, kind) ==
  IF origin[b].kind = "root" THEN << >>
  ELSE RegOrder(origin[b].parent, kind) \o
       (IF origin[b].kind = kind THEN <<origin[b].hook>> ELSE << >>)

IsPrefix(s, t) == Len(s) <= Len(t) /\ \A i \in 1..Len(s) : s[i] = t[i]

SeqToSet(s) == {s[i] : i \in 1..Len(s)}

\* the hooks a trace started in one phase, in the order they were started
StartedHooks(tr, phase) ==
  LET sel == SelectSeq(tr, LAMBDA st : st.kind = "start" /\ st.phase = phase)
  IN [i \in 1..Len(sel) |-> sel[i].hook]

Built(c) == calls[c].command # NoCommand

\* C1: one invoke of the decorated command calls the pre-hooks, and the
\* post-hooks, in the order of the with*Hook calls that attached them, and
\* hook k+1 of a phase starts only after hook k of that phase has completed;
\* a completed invoke has called all of them.
C1_HookOrder ==
  \A c \in Calls : Built(c) =>
    LET call == calls[c]
        tr   == call.trace
        pre  == RegOrder(call.builder, "pre")
        post == RegOrder(call.builder, "post")
        ord(phase) == IF phase = "pre" THEN pre ELSE post
    IN /\ IsPrefix(StartedHooks(tr, "pre"), pre)
       /\ IsPrefix(StartedHooks(tr, "post"), post)
       /\ \A i \in 1..Len(tr) :
            (tr[i].kind = "start" /\ tr[i].phase # "core" /\ tr[i].k > 1) =>
              /\ i > 1
              /\ tr[i-1] = Step("end", tr[i].phase, ord(tr[i].phase)[tr[i].k - 1], tr[i].k - 1)
       /\ call.pc = "completed" =>
            /\ StartedHooks(tr, "pre") = pre
            /\ StartedHooks(tr, "post") = post

C1_Witness ==
  \E c \in Calls :
    /\ calls[c].pc = "completed"
    /\ Len(RegOrder(calls[c].builder, "pre")) >= 2
    /\ Len(StartedHooks(calls[c].trace, "pre")) >= 2

\* C2: the steps of one invoke never overlap: a step that has started settles
\* before any other step of the call starts, the core command starts only
\* after every pre-hook has completed, and a post-hook starts only after the
\* core command has completed.
C2_NoOverlap ==
  \A c \in Calls : Built(c) =>
    LET call == calls[c]
        tr   == call.trace
        nPreHooks == Len(preInvokeHooks[call.command.this])
        Ended(phase, upto) ==
          Cardinality({j \in 1..upto : tr[j].kind = "end" /\ tr[j].phase = phase})
    IN \A i \in 1..Len(tr) : tr[i].kind = "start" =>
         /\ i < Len(tr) =>
              /\ tr[i+1].kind \in {"end", "throw"}
              /\ tr[i+1].phase = tr[i].phase
              /\ tr[i+1].k = tr[i].k
         /\ i > 1 => tr[i-1].kind = "end"
         /\ tr[i].phase = "core" => Ended("pre", i - 1) = nPreHooks
         /\ tr[i].phase = "post" =>
              /\ Ended("core", i - 1) = 1
              /\ Ended("pre", i - 1) = nPreHooks

C2_Witness ==
  \E c \in Calls :
    /\ calls[c].pc = "completed"
    /\ StartedHooks(calls[c].trace, "pre") # << >>
    /\ StartedHooks(calls[c].trace, "post") # << >>

\* C3: if the k-th pre-hook throws, nothing of that invoke runs afterwards:
\* no later pre-hook, not the core command, no post-hook.
C3_PhaseIsolation ==
  \A c \in Calls :
    LET tr == calls[c].trace IN
    \A i \in 1..Len(tr) : (tr[i].kind = "throw" /\ tr[i].phase = "pre") =>
      /\ i = Len(tr)
      /\ StartedHooks(tr, "pre") =
           SubSeq(preInvokeHooks[calls[c].command.this], 1, tr[i].k)
      /\ \A j \in 1..Len(tr) : tr[j].phase = "pre"

C3_Witness ==
  \E c \in Calls :
    /\ calls[c].pc = "errorHandled"
    /\ calls[c].error = <<"pre", 1>>
    /\ Len(preInvokeHooks[calls[c].command.this]) >= 2

\* C4: if the core command throws, no post-hook runs; if the k-th post-hook
\* throws, no later post-hook runs; either way the error is in the Mediator's
\* catch block, whose handleError call is the only thing that can follow.
C4_PostOnlyAfterSuccess ==
  \A c \in Calls :
    LET tr == calls[c].trace IN
    \A i \in 1..Len(tr) : (tr[i].kind = "throw" /\ tr[i].phase \in {"core", "post"}) =>
      /\ i = Len(tr)
      /\ tr[i].phase = "core" => StartedHooks(tr, "post") = << >>
      /\ tr[i].phase = "post" => Len(StartedHooks(tr, "post")) = tr[i].k
      /\ calls[c].pc \in {"catch", "errorHandled"}
      /\ calls[c].pc = "catch" => ENABLED handleError(c)
      /\ calls[c].pc = "errorHandled" =>
           /\ Len(calls[c].handled) = 1
           /\ calls[c].handled[1].error = <<tr[i].phase, tr[i].k>>

C4_Witness ==
  \E c \in Calls :
    /\ calls[c].pc = "errorHandled"
    /\ calls[c].error = <<"core", 1>>
    /\ postInvokeHooks[calls[c].command.this] # << >>

\* the error a call has thrown so far, read from its history
Thrown(call) ==
  IF call.trace # << >> /\ call.trace[Len(call.trace)].kind = "throw"
  THEN <<call.trace[Len(call.trace)].phase, call.trace[Len(call.trace)].k>>
  ELSE IF call.command # NoCommand THEN NoError
  ELSE IF call.factoryCalls # << >> THEN FactoryThrew
  ELSE IF call.pc # "idle" THEN NoFactoryRegistered
  ELSE NoError

\* C5: processEvent never throws: its promise is never rejected and is
\* resolved once the call is over; a call in which anything threw (missing
\* factory, factory, pre-hook, core command, post-hook) ends with exactly one
\* handleError call, made with the submitted event and the thrown error, and a
\* call in which nothing threw makes none.
C5_NeverThrows ==
  \A c \in Calls :
    LET call == calls[c] IN
    /\ call.promise # "rejected"
    /\ Terminal(c) => call.promise = "resolved"
    /\ Thrown(call) # NoError => call.pc \in {"catch", "errorHandled"}
    /\ call.pc = "errorHandled" =>
         call.handled = <<[event |-> Event(c, call.event.type), error |-> Thrown(call)]>>
    /\ call.pc # "errorHandled" => call.handled = << >>
    /\ call.pc = "completed" => Thrown(call) = NoError

C5_Witness ==
  \E c \in Calls :
    /\ calls[c].pc = "errorHandled"
    /\ calls[c].promise = "resolved"
    /\ calls[c].error = FactoryThrew

Last(s) == s[Len(s)]

\* C6: an event whose type has no factory registered on the Mediator's
\* builder fails in buildCommand with the no-factory error before anything
\* runs: no factory call, no hook, no core command, no context, nothing of
\* this event in the collector, and handleError is called once.
C6_NoFactorySafety ==
  \A c \in Calls :
    LET call == calls[c] IN
    (call.pc # "idle" /\ call.regAtBuild = << >>) =>
      /\ call.error = NoFactoryRegistered
      /\ call.factoryCalls = << >>
      /\ call.trace = << >>
      /\ call.command = NoCommand
      /\ call.context = NoContext
      /\ \A i \in 1..Len(events) : events[i].causationId # call.event.id
      /\ call.pc \in {"catch", "errorHandled"}
      /\ Len(call.handled) = (IF call.pc = "errorHandled" THEN 1 ELSE 0)

C6_Witness ==
  \E c \in Calls :
    /\ calls[c].pc = "errorHandled"
    /\ calls[c].regAtBuild = << >>
    /\ preInvokeHooks[calls[c].builder] # << >>
    /\ postInvokeHooks[calls[c].builder] # << >>
    /\ \E t \in Types : commandFactories[calls[c].builder][t] # NoFactory

\* a with*Hook call has just returned builder nBuilders'
Derived == nBuilders' = nBuilders + 1

\* C7: a with*Hook call leaves the hook lists and the factory map of every
\* existing builder (the receiver included) as they were, so that commands
\* built from them run the same hooks as before, and the builder it returns
\* has the receiver's lists with the hook appended to the targeted list and
\* the other list copied.
C7_BuilderImmutability ==
  [][Derived =>
      LET new == nBuilders'
          o   == origin'[new]
      IN /\ \A b \in 1..nBuilders :
              /\ preInvokeHooks'[b] = preInvokeHooks[b]
              /\ postInvokeHooks'[b] = postInvokeHooks[b]
              /\ commandFactories'[b] = commandFactories[b]
         /\ o.kind = "pre" =>
              /\ preInvokeHooks'[new] = Append(preInvokeHooks[o.parent], o.hook)
              /\ postInvokeHooks'[new] = postInvokeHooks[o.parent]
         /\ o.kind = "post" =>
              /\ preInvokeHooks'[new] = preInvokeHooks[o.parent]
              /\ postInvokeHooks'[new] = Append(postInvokeHooks[o.parent], o.hook)
    ]_vars

\* a command built from a builder before a with*Hook call on that builder,
\* and completed after it
C7_Witness ==
  \E c \in Calls, b \in 1..nBuilders :
    /\ origin[b].parent = calls[c].builder
    /\ origin[b].kind = "pre"
    /\ preInvokeHooks[calls[c].builder] # << >>
    /\ calls[c].pc = "completed"
    /\ ~ (origin[b].hook \in SeqToSet(StartedHooks(calls[c].trace, "pre")))

\* C8: every builder holds exactly the hooks added along its own derivation
\* path, so of two builders derived from a common ancestor by different calls
\* neither holds, and no command built from one runs, a hook added only on
\* the other's path.
C8_SiblingIsolation ==
  /\ \A x \in 1..nBuilders :
       /\ preInvokeHooks[x] = RegOrder(x, "pre")
       /\ postInvokeHooks[x] = RegOrder(x, "post")
  /\ \A c \in Calls : Built(c) =>
       /\ SeqToSet(StartedHooks(calls[c].trace, "pre"))
            \subseteq SeqToSet(RegOrder(calls[c].builder, "pre"))
       /\ SeqToSet(StartedHooks(calls[c].trace, "post"))
            \subseteq SeqToSet(RegOrder(calls[c].builder, "post"))

C8_Witness ==
  \E c \in Calls, x, y \in 2..nBuilders :
    /\ x # y
    /\ origin[x].parent = origin[y].parent
    /\ origin[x].kind = "post" /\ origin[y].kind = "post"
    /\ calls[c].builder = x
    /\ calls[c].pc = "completed"
    /\ StartedHooks(calls[c].trace, "post") = <<origin[x].hook>>

\* C9: the builder a with*Hook call returns builds commands for exactly the
\* types registered on the receiver at the time of the call, with the factory
\* the receiver uses, and fails for every other type.
C9_FactoriesCarriedForward ==
  [][Derived =>
      LET new == nBuilders'
          b   == origin'[new].parent
      IN \A t \in Types :
           /\ lookupFactory(commandFactories'[new], t) = lookupFactory(commandFactories[b], t)
           /\ registered[b][t] # << >> =>
                /\ lookupFactory(commandFactories'[new], t).ok
                /\ lookupFactory(commandFactories'[new], t).factory = Last(registered[b][t])
           /\ registered[b][t] = << >> =>
                ~ lookupFactory(commandFactories'[new], t).ok
    ]_vars

\* a derived builder built a command with a factory it got from its parent
C9_Witness ==
  \E c \in Calls, t \in Types :
    LET b == calls[c].builder IN
    /\ b > 1
    /\ Built(c)
    /\ calls[c].command.inner.factory = commandFactories[origin[b].parent][calls[c].event.type]
    /\ commandFactories[b][t] = NoFactory

\* C10: buildCommand calls the factory most recently registered for the
\* event's type on that builder, once, and no other factory.
C10_LastRegistrationWins ==
  \A c \in Calls :
    LET call == calls[c] IN
    (call.pc # "idle" /\ call.regAtBuild # << >>) =>
      /\ call.factoryCalls = <<Last(call.regAtBuild)>>
      /\ Built(c) => call.command.inner.factory = Last(call.regAtBuild)

C10_Witness ==
  \E c \in Calls :
    /\ Len(calls[c].regAtBuild) >= 2
    /\ calls[c].regAtBuild[1] # Last(calls[c].regAtBuild)
    /\ calls[c].pc = "completed"

\* C11: the decorated command has the commandId of the base command its
\* factory produced, whatever the hooks, and every hook is called with that
\* commandId.
C11_TransparentIdentity ==
  \A c \in DOMAIN calls : Built(c) =>
    LET call == calls[c] IN
    /\ call.command.commandId = call.command.inner.commandId
    /\ call.command.inner.commandId = <<call.factoryCalls[1], c>>
    /\ Len(call.hookArgs) =
         Len(StartedHooks(call.trace, "pre")) + Len(StartedHooks(call.trace, "post"))
    /\ \A i \in 1..Len(call.hookArgs) : call.hookArgs[i] = call.command.commandId

C11_Witness ==
  \E c \in DOMAIN calls :
    /\ calls[c].pc = "completed"
    /\ StartedHooks(calls[c].trace, "pre") # << >>
    /\ StartedHooks(calls[c].trace, "post") # << >>
    /\ Len(calls[c].hookArgs) = 2

\* the events of the collector that name event id as their cause
CausedBy(id) == SelectSeq(events, LAMBDA e : e.causationId = id)

\* C15: every event a command adds to the collector while event E is
\* processed carries E's correlationId and has E's id as its causationId.
C15_CorrelationPropagation ==
  /\ \A c \in DOMAIN calls :
       \A i \in 1..Len(calls[c].published) :
         /\ calls[c].published[i].correlationId = calls[c].event.correlationId
         /\ calls[c].published[i].causationId = calls[c].event.id
  /\ \A i \in 1..Len(events) :
       \E c \in DOMAIN calls :
         /\ \E j \in 1..Len(calls[c].published) : calls[c].published[j] = events[i]
         /\ events[i].correlationId = calls[c].event.correlationId
         /\ events[i].causationId = calls[c].event.id

C15_Witness ==
  \E c \in DOMAIN calls :
    /\ calls[c].pc = "completed"
    /\ calls[c].published # << >>
    /\ events # << >>
    /\ events[1].causationId = calls[c].event.id

\* C16 (as stated): a call that ends in the error path, whatever failed,
\* leaves no event caused by its event in the collector, and handleError has
\* recorded the failure.
C16_FailedEventNoSideEffects ==
  \A c \in DOMAIN calls : calls[c].pc = "errorHandled" =>
    /\ CausedBy(calls[c].event.id) = << >>
    /\ Len(calls[c].handled) = 1

\* C16 (amended): a call that ends in the error path has one handleError
\* record of its failure; after a build, pre-hook or core failure the
\* collector holds no event caused by its event, after a post-hook failure
\* it still holds the event the core command published.
C16_FailedEventSideEffects ==
  \A c \in DOMAIN calls : calls[c].pc = "errorHandled" =>
    LET call == calls[c] IN
    /\ Len(call.handled) = 1
    /\ call.handled[1].error = call.error
    /\ call.error[1] # "post" => CausedBy(call.event.id) = << >>
    /\ call.error[1] = "post" =>
         /\ CausedBy(call.event.id) = call.published
         /\ Len(call.published) = 1

C16_Witness ==
  \E c \in DOMAIN calls :
    /\ calls[c].pc = "errorHandled"
    /\ calls[c].error[1] = "post"
    /\ Len(CausedBy(calls[c].event.id)) = 1

\* how often a step of one kind was taken in a trace
Count(tr, kind, phase, k) ==
  Cardinality({i \in 1..Len(tr) : tr[i].kind = kind /\ tr[i].phase = phase /\ tr[i].k = k})

AtMostOnce(call) ==
  /\ Len(call.factoryCalls) <= 1
  /\ \A i \in 1..Len(call.trace) :
       Count(call.trace, "start", call.trace[i].phase, call.trace[i].k) <= 1
  /\ Len(call.handled) <= 1
  /\ call.pc = "completed" => call.handled = << >>
  /\ call.pc = "errorHandled" => Len(call.handled) = 1

\* C17: no retry: in one call the factory, every hook and the core command
\* run at most once; the call ends either completed, with no handleError
\* call, or error-handled, with exactly one; once it has ended nothing of it
\* changes again, and no other call is made with its event.
C17_NoRetry ==
  [][\A c \in DOMAIN calls :
       /\ AtMostOnce(calls'[c])
       /\ Terminal(c) =>
            /\ calls'[c] = calls[c]
            /\ \A d \in DOMAIN calls : d # c => calls'[d].event.id # calls[c].event.id
    ]_vars

C17_Witness ==
  \E c \in DOMAIN calls :
    /\ calls[c].pc = "errorHandled"
    /\ calls[c].error[1] = "post"
    /\ StartedHooks(calls[c].trace, "pre") # << >>

\* C18: a call in which nothing throws has run every pre-hook of its stack
\* once, the core command once and every post-hook once, in that order, has
\* made no handleError call, and (its command publishing one event) has
\* added exactly one event to the collector, with the correlationId of the
\* processed event.
C18_SuccessfulCall ==
  \A c \in DOMAIN calls : calls[c].pc = "completed" =>
    LET call == calls[c]
        pre  == preInvokeHooks[call.command.this]
        post == postInvokeHooks[call.command.this]
    IN /\ Len(call.trace) = 2 * (Len(pre) + 1 + Len(post))
       /\ \A k \in 1..Len(pre) :
            /\ Count(call.trace, "start", "pre", k) = 1
            /\ Count(call.trace, "end", "pre", k) = 1
       /\ Count(call.trace, "start", "core", 1) = 1
       /\ Count(call.trace, "end", "core", 1) = 1
       /\ \A k \in 1..Len(post) :
            /\ Count(call.trace, "start", "post", k) = 1
            /\ Count(call.trace, "end", "post", k) = 1
       /\ call.handled = << >>
       /\ Len(call.published) = 1 =>
            /\ Len(CausedBy(call.event.id)) = 1
            /\ CausedBy(call.event.id)[1].correlationId = call.event.correlationId

C18_Witness ==
  \E c \in DOMAIN calls :
    /\ calls[c].pc = "completed"
    /\ Len(preInvokeHooks[calls[c].command.this]) = 1
    /\ Len(postInvokeHooks[calls[c].command.this]) = 1
    /\ Len(events) = 1

\* C12: the collector is an append log: what getEvents returns is exactly
\* the events passed to addEvent since the last clear (or since creation),
\* in that order, duplicates included, however many there are.
C12_AppendLog ==
  /\ events = added
  /\ (ops # << >> /\ Last(ops) = "get") =>
       /\ returned.items = added
       /\ Len(returned.items) = Len(added)

C12_Witness ==
  /\ Len(ops) = 5
  /\ ops[2] = "clear"
  /\ ops[1] = "add"
  /\ Last(ops) = "get"
  /\ Len(returned.items) = 2
  /\ returned.items[1] = returned.items[2]

\* C13: a getEvents call leaves the collector as it is and returns what the
\* getEvents call right before it returned; getEvents right after clear
\* returns the empty sequence; clear leaves the collector empty, also when
\* it was empty already.
C13_IdempotentRead ==
  [][ops' # ops =>
       LET op == Last(ops')
           prev == IF ops = << >> THEN "none" ELSE Last(ops)
       IN /\ op = "get" => (events' = events /\ added' = added)
          /\ (op = "get" /\ prev = "get") => returned'.items = returned.items
          /\ (op = "get" /\ prev = "clear") => returned'.items = << >>
          /\ op = "clear" => events' = << >>
    ]_vars

C13_Witness ==
  /\ Len(ops) >= 3
  /\ ops[Len(ops)] = "get"
  /\ ops[Len(ops) - 1] = "get"
  /\ returned.items # << >>
  /\ events # << >>

\* C14: the array getEvents returned is the caller's own: addEvent and clear
\* on the collector leave it as it is, and whatever the caller does to it
\* leaves the collector's events, and so what getEvents returns next, as
\* they are.
C14_DefensiveCopy ==
  [][ops' # ops =>
       LET op == Last(ops') IN
       /\ (op \in {"add", "clear"} /\ returned.held) => returned'.items = returned.items
       /\ op = "mutate" => events' = events
       /\ (op = "get" /\ ops # << >> /\ Last(ops) = "mutate") => returned'.items = events
    ]_vars

C14_Witness ==
  /\ Len(ops) >= 3
  /\ Last(ops) = "mutate"
  /\ ops[Len(ops) - 1] = "add"
  /\ returned.held
  /\ returned.items # events
  /\ events # << >>

\* the builders InitConc starts from are builders the program can assemble
ConcStackAssembled ==
  /\ nBuilders = 3
  /\ preInvokeHooks = [b \in Builders |-> IF b \in {2, 3} THEN <<2>> ELSE << >>]
  /\ postInvokeHooks = [b \in Builders |-> IF b = 3 THEN <<3>> ELSE << >>]
  /\ \A b \in 1..3 : commandFactories[b] = MapSet(EmptyMap, "T1", 1)
  /\ origin[2] = [parent |-> 1, kind |-> "pre", hook |-> 2]
  /\ origin[3] = [parent |-> 2, kind |-> "post", hook |-> 3]
  /\ \A b \in 1..3 : registered[b] = [t \in Types |-> IF t = "T1" THEN <<1>> ELSE << >>]
  /\ nRegs = 1
  /\ \A c \in DOMAIN calls : calls[c] = IdleCall

\* C19: every call gets a state object of its own, empty when the call
\* starts, and a state object only ever holds entries written by the steps of
\* the call it was created for, whether the calls run one after the other or
\* interleaved.
C19_FreshContext ==
  \A c \in DOMAIN calls : Built(c) =>
    LET obj == calls[c].context.state IN
    /\ obj # NoState
    /\ \A d \in DOMAIN calls : (d # c /\ Built(d)) => calls[d].context.state # obj
    /\ calls[c].trace = << >> => states[obj] = << >>
    /\ \A i \in 1..Len(states[obj]) : states[obj][i].by = c

\* two calls on one Mediator, interleaved, both of which have written state
C19_Witness ==
  \E c, d \in DOMAIN calls :
    /\ c # d
    /\ calls[c].builder = calls[d].builder
    /\ calls[c].pc = "coreAwait" /\ calls[d].pc = "postAwait"
    /\ states[calls[c].context.state] # << >>
    /\ states[calls[d].context.state] # << >>

RECURSIVE TotalPublished(_)
TotalPublished(n) ==
  IF n = 0 THEN 0 ELSE Len(calls[n].published) + TotalPublished(n - 1)

\* C20: whatever the interleaving of the calls, the collector holds exactly
\* the events the calls passed to addEvent, each once, and the events of one
\* call in the order that call added them.
C20_CollectorNotCorrupted ==
  /\ \A c \in DOMAIN calls : CausedBy(calls[c].event.id) = calls[c].published
  /\ Len(events) = TotalPublished(Len(calls))

\* both calls finished, their events interleaved in the collector
C20_Witness ==
  /\ \A c \in DOMAIN calls : Terminal(c)
  /\ Len(events) = 4
  /\ events[1].causationId = events[3].causationId
  /\ events[2].causationId = events[4].causationId
  /\ events[1].causationId # events[2].causationId

\* C21: when every hook and every command that is called settles and ready
\* continuations are run, every processEvent call that was made eventually
\* reaches COMPLETED or ERROR_HANDLED with its promise resolved.
C21_Termination ==
  \A c \in ConcCalls :
    (calls[c].pc # "idle") ~> (Terminal(c) /\ calls[c].promise = "resolved")

\* two calls made on builders with hooks have both ended, one in each
\* terminal state
C21_Witness ==
  \E c, d \in DOMAIN calls :
    /\ calls[c].pc = "completed" /\ calls[c].promise = "resolved"
    /\ calls[c].nPre > 0 /\ calls[c].nPost > 0
    /\ calls[d].pc = "errorHandled" /\ calls[d].promise = "resolved"
    /\ calls[d].nPost > 0

Stalled(c) == calls[c].pc = "stalled"

\* C22: a call whose awaited hook or command never settles stays where it
\* is: it never becomes COMPLETED or ERROR_HANDLED, none of its later steps
\* run and handleError is not called for it. Meanwhile another call can be
\* made on the same Mediator, and every other call that was made and does not
\* itself stall reaches a terminal state.
C22_StallDoesNotBlock ==
  /\ [][\A c \in ConcCalls : Stalled(c) => calls'[c] = calls[c]]_vars
  /\ [](\A c \in ConcCalls : Stalled(c) =>
          /\ calls[c].handled = << >>
          /\ calls[c].promise = "pending"
          /\ Last(calls[c].trace).kind = "start"
          /\ \A d \in ConcCalls :
               (calls[d].pc = "idle" /\ \A e \in 1..(d-1) : calls[e].pc # "idle") =>
                 ENABLED (\E b \in Builders, t \in Types, ft \in BOOLEAN :
                            InOrder(d) /\ processEvent(d, b, t, ft)))
  /\ \A d \in ConcCalls :
       (calls[d].pc # "idle") ~> (Terminal(d) \/ Stalled(d))

\* the first call is stalled in its post-hook; the second call, on the same
\* builder, has run all its steps and completed
C22_Witness ==
  /\ Stalled(1)
  /\ Last(calls[1].trace).phase = "post"
  /\ calls[2].builder = calls[1].builder
  /\ calls[2].pc = "completed"
  /\ calls[2].nPre > 0 /\ calls[2].nPost > 0

\* C23: every step of one call is handed the call's one context object, and
\* what a step finds in context.state is exactly what the steps before it
\* wrote, in the order they wrote it: an entry written by pre-hook i is still
\* there for every later pre-hook, for the command and for every post-hook.
C23_SharedContext ==
  \A c \in DOMAIN calls : Built(c) =>
    LET call == calls[c]
        sn   == call.seen IN
    \A j \in 1..Len(sn) :
      /\ sn[j].obj = call.context.state
      /\ Len(sn[j].entries) = j - 1
      /\ \A i \in 1..(j-1) :
           sn[j].entries[i] = [by |-> c, phase |-> sn[i].phase, k |-> sn[i].k]
      /\ IsPrefix(sn[j].entries, states[call.context.state])

\* a post-hook has started and found the entries of a pre-hook and of the
\* command
C23_Witness ==
  \E c \in DOMAIN calls :
    LET sn == calls[c].seen IN
    /\ Len(sn) = 3
    /\ sn[1].phase = "pre" /\ sn[2].phase = "core" /\ sn[3].phase = "post"
    /\ Len(sn[3].entries) = 2
    /\ sn[3].entries[1].phase = "pre"

\* the payload has the fields the constructor of the command declares
DeclaredShape(factory, payload) ==
  IF factory = 1 THEN payload.storeId /\ payload.productList.isArray
  ELSE payload.matchId /\ payload.storeId

ZeroHooks(c) == calls[c].builder = 1 /\ Built(c)

PreKinds(b) == {HookKind(preInvokeHooks[b][i]) : i \in 1..Len(preInvokeHooks[b])}

Ran(call, kind) ==
  \E i \in 1..Len(call.trace) :
    call.trace[i].phase = "pre" /\ HookKind(call.trace[i].hook) = kind

\* C25: in every stack of the demo with both the authorization hook and the
\* validation hook, an event whose source is not authorized for its type is
\* rejected by the authorization hook before the validation hook or the
\* command has run.
C25_AuthBeforeValidation ==
  \A c \in DOMAIN calls :
    LET call == calls[c] IN
    ( /\ Built(c)
      /\ {"auth", "validation"} \subseteq PreKinds(call.builder)
      /\ ~checkAuthorization(call.event.source, call.event.type) ) =>
        /\ ~Ran(call, "validation")
        /\ \A i \in 1..Len(call.trace) : call.trace[i].phase # "core"
        /\ Terminal(c) => HookKind(preInvokeHooks[call.builder][call.error[2]]) = "auth"

\* C26: along a chain that starts from a root event, every collected event
\* carries the root's correlationId, and its causationId is the id of the
\* event whose processing added it: the root or an event collected earlier.
C26_CorrelationAlongChains ==
  \A i \in 1..Len(events) :
    /\ events[i].correlationId = calls[1].event.correlationId
    /\ \E c \in DOMAIN calls :
         /\ events[i].causationId = calls[c].event.id
         /\ \E k \in 1..Len(calls[c].published) : calls[c].published[k] = events[i]
    /\ \/ events[i].causationId = calls[1].event.id
       \/ \E j \in 1..(i-1) : events[j].id = events[i].causationId

\* the first collected event was submitted again and its processing added
\* an event
C26_Witness ==
  /\ Len(events) >= 2
  /\ events[1].causationId = calls[1].event.id
  /\ events[2].causationId = events[1].id
  /\ events[2].type = "REP_CHECKED_IN"

Allowed(source, eventType) ==
  \/ source = "rep-portal" /\ eventType \in {"MATCH_STORE_TO_PRODUCT", "CANCEL_MATCH", "ASSIGN_REP"}
  \/ source = "matching-service" /\ eventType \in {"STORE_MATCHED", "MATCH_UPDATED"}
  \/ source = "brand-portal" /\ eventType \in {"PRODUCT_ADDED", "PRODUCT_UPDATED"}
  \/ source = "store-portal" /\ eventType \in {"STORE_CONFIRMED_MATCH", "STORE_REJECTED_MATCH"}

\* C30: the authorization hook returns exactly when the event's type is in
\* the allow list of the event's source and throws otherwise, in particular
\* for every source that is not in the table; after it has thrown, the
\* command never runs and handleError is called with that error.
C30_DefaultDeny ==
  \A c \in DOMAIN calls :
    LET call == calls[c]
        tr   == call.trace IN
    \A i \in 1..Len(tr) :
      (tr[i].phase = "pre" /\ HookKind(tr[i].hook) = "auth" /\ tr[i].kind # "start") =>
        /\ tr[i].kind = "end" <=> Allowed(call.event.source, call.event.type)
        /\ tr[i].kind = "throw" =>
             /\ i = Len(tr)
             /\ \A j \in 1..Len(tr) : tr[j].phase # "core"
             /\ call.pc \in {"catch", "errorHandled"}
             /\ call.error = <<"pre", tr[i].k>>
             /\ call.pc = "errorHandled" =>
                  call.handled = <<[event |-> call.event, error |-> call.error]>>

\* an event from a source the table does not know was stopped by the
\* authorization hook and handed to handleError
C30_Witness ==
  \E c \in DOMAIN calls :
    /\ calls[c].pc = "errorHandled"
    /\ calls[c].event.source = "unknown"
    /\ Len(calls[c].handled) = 1
    /\ Ran(calls[c], "auth")
    /\ Last(calls[c].trace).kind = "throw"
    /\ HookKind(Last(calls[c].trace).hook) = "auth"

\* the registered definition of id builds its instances with a class or a
\* factory
Made(id) ==
  /\ container.services[id].registered
  /\ container.services[id].def.useClass # 0 \/ container.services[id].def.useFactory # 0

SingletonMade(id) == Made(id) /\ container.services[id].def.lifetime = "singleton"

TransientMade(id) == Made(id) /\ container.services[id].def.lifetime # "singleton"

\* this step is a resolve(id) call
Resolving(id) ==
  /\ resolution' # resolution
  /\ resolution'.last.op = "resolve"
  /\ resolution'.last.id = id

\* a resolve that returns hands out the instance the first resolve returned
SameAsFirst ==
  \A id \in Ids :
    (SingletonMade(id) /\ resolution.last.op = "resolve" /\ resolution.last.id = id
       /\ ~resolution.last.threw) =>
      /\ resolution.last.result = resolution.first[id]
      /\ container.instances[id] = [has |-> TRUE, value |-> resolution.first[id]]

\* with nothing cached, a resolve that returns has constructed a new instance
NewWhenNotCached ==
  \A id \in Ids :
    (SingletonMade(id) /\ ~container.instances[id].has /\ Resolving(id)
       /\ ~resolution'.last.threw) =>
      /\ resolution'.last.ran # "none"
      /\ resolution'.last.result.n = resolution.built + 1
      /\ container'.instances[id].has

\* C27 as stated: the class or factory of a singleton service is run at most
\* once between clearInstances calls, every resolve returns the instance the
\* first resolve returned, and after clearInstances the next resolve
\* constructs a new instance.
C27_SingletonRunOnce ==
  /\ [](\A id \in Ids : SingletonMade(id) => resolution.runs[id] <= 1)
  /\ []SameAsFirst
  /\ [][NewWhenNotCached]_vars

\* C27 (amended): the class or factory of a singleton service runs to
\* completion at most once between clearInstances calls (a run that throws
\* caches nothing, so the next resolve runs it again); every resolve that
\* returns hands out the instance the first such resolve returned; after
\* clearInstances the next resolve that returns has constructed a new one.
C27_SingletonResolution ==
  /\ [](\A id \in Ids : SingletonMade(id) => resolution.completed[id] <= 1)
  /\ []SameAsFirst
  /\ [][NewWhenNotCached]_vars

\* a singleton built a second time after a clearInstances call has just been
\* handed out from the cache
C27_Witness ==
  \E id \in Ids :
    /\ SingletonMade(id)
    /\ resolution.built >= 2
    /\ resolution.completed[id] = 1
    /\ resolution.last.op = "resolve" /\ resolution.last.id = id
    /\ resolution.last.ran = "none" /\ ~resolution.last.threw
    /\ resolution.last.result.n = 2

\* C28: every resolve of a service whose lifetime is 'transient' or not given
\* runs the class constructor or the factory again, returns what that run
\* made, and leaves the instance cache as it was.
C28_TransientResolution ==
  [][\A id \in Ids : (TransientMade(id) /\ Resolving(id)) =>
        /\ resolution'.last.ran # "none"
        /\ resolution'.built = resolution.built + 1
        /\ ~resolution'.last.threw => resolution'.last.result.n = resolution.built + 1
        /\ container'.instances = container.instances]_vars

\* a service with no lifetime given has been resolved twice, each resolve
\* making an instance, and nothing is cached for it
C28_Witness ==
  \E id \in Ids :
    /\ TransientMade(id)
    /\ container.services[id].def.lifetime = "undefined"
    /\ resolution.completed[id] = 2
    /\ ~container.instances[id].has
    /\ resolution.last.result.n = 2

\* C29: resolve of an identifier that is not registered throws 'Service not
\* registered', runs no constructor and no factory, and leaves the services
\* map and the instances map as they were.
C29_UnregisteredResolve ==
  [][\A id \in Ids : (~container.services[id].registered /\ Resolving(id)) =>
        /\ resolution'.last.threw
        /\ resolution'.last.error = "Service not registered"
        /\ resolution'.last.ran = "none"
        /\ resolution'.built = resolution.built
        /\ container' = container]_vars

\* with another service registered and cached, the resolve of an
\* unregistered identifier has thrown
C29_Witness ==
  \E id, other \in Ids :
    /\ ~container.services[id].registered
    /\ resolution.last.op = "resolve" /\ resolution.last.id = id
    /\ resolution.last.error = "Service not registered"
    /\ container.instances[other].has

\* C31: the validation hook throws exactly when the validator has a rule for
\* the event's type and the payload breaks it (MATCH_STORE_TO_PRODUCT: storeId
\* and a non-empty productList array; STORE_MATCHED: matchId and storeId;
\* ASSIGN_REP: matchId and repId); an event of any other type passes.
BreaksRule(t, p) ==
  \/ t = "MATCH_STORE_TO_PRODUCT" /\ ~(p.storeId /\ p.productList.isArray /\ p.productList.n > 0)
  \/ t = "STORE_MATCHED" /\ ~(p.matchId /\ p.storeId)
  \/ t = "ASSIGN_REP" /\ ~(p.matchId /\ p.repId)

C31_ValidationDefaultAllow ==
  \A c \in DOMAIN calls :
    calls[c].pc \in {"hookThrew", "hookReturned"} =>
      LET ev == calls[c].event IN
      /\ calls[c].pc = "hookThrew" <=> BreaksRule(ev.type, ev.payload)
      /\ ev.type \notin {"MATCH_STORE_TO_PRODUCT", "STORE_MATCHED", "ASSIGN_REP"}
            => calls[c].pc = "hookReturned"

C31_Witness ==
  \E c \in DOMAIN calls :
    /\ calls[c].pc = "hookReturned"
    /\ calls[c].event.type = "CANCEL_MATCH"
    /\ ~calls[c].event.payload.storeId
    /\ ~calls[c].event.payload.matchId

\* C32: on the demo's manager (the full capability stack), a valid
\* MATCH_STORE_TO_PRODUCT event from 'rep-portal' and then the first collected
\* event, submitted again, both pass the logging, validation and
\* authorization hooks; handleError is never called; the collector then holds
\* exactly two events, the STORE_MATCHED event first and the second command's
\* event after it.
FullStack == 8

ValidMatchFromPortal(ev) ==
  /\ ev.type = "MATCH_STORE_TO_PRODUCT"
  /\ ev.source = "rep-portal"
  /\ ~BreaksRule(ev.type, ev.payload)

NoFailure(c) ==
  /\ calls[c].handled = << >>
  /\ calls[c].pc \notin {"catch", "errorHandled"}
  /\ \A i \in 1..Len(calls[c].trace) : calls[c].trace[i].kind # "throw"

Passed(c, kind) ==
  \E i \in 1..Len(calls[c].trace) :
    /\ calls[c].trace[i].kind = "end"
    /\ calls[c].trace[i].phase = "pre"
    /\ HookKind(calls[c].trace[i].hook) = kind

PassedAll(c) == \A kind \in {"logging", "validation", "auth"} : Passed(c, kind)

FirstLeg ==
  /\ calls[1].pc # "idle"
  /\ calls[1].builder = FullStack
  /\ ValidMatchFromPortal(calls[1].event)

SecondLeg ==
  /\ FirstLeg
  /\ 2 \in DOMAIN calls
  /\ calls[2].pc # "idle"
  /\ calls[2].builder = FullStack
  /\ events # << >>
  /\ calls[2].event.id = events[1].id

EndedHook(c, kind) ==
  \E i \in 1..Len(calls[c].trace) :
    /\ calls[c].trace[i].kind = "end"
    /\ calls[c].trace[i].phase = "pre"
    /\ HookKind(calls[c].trace[i].hook) = kind

Rewritten(ev) == ev.payload.productList.isArray /\ ev.payload.productList.enhanced

AiRan(c) == Built(c) /\ calls[c].event.type = "MATCH_STORE_TO_PRODUCT" /\ EndedHook(c, "ai")

RegisteredOn(b) == UNION {SeqToSet(registered[b][t]) : t \in DOMAIN registered[b]}

C34_FactoryMapsIndependent ==
  /\ [][\A b \in 1..nBuilders :
          registered'[b] = registered[b] => commandFactories'[b] = commandFactories[b]]_vars
  /\ [](\A b \in 1..nBuilders : \A t \in DOMAIN commandFactories[b] :
          commandFactories[b][t] # NoFactory => commandFactories[b][t] \in RegisteredOn(b))
  /\ [](\A c \in DOMAIN calls :
          Built(c) => \A i \in 1..Len(calls[c].factoryCalls) :
                        calls[c].factoryCalls[i] \in RegisteredOn(calls[c].builder))

C34_Witness ==
  \E c \in DOMAIN calls : \E t \in Types :
    LET b == calls[c].builder IN
    /\ Built(c)
    /\ calls[c].event.type = t
    /\ origin[b].kind # "root"
    /\ commandFactories[origin[b].parent][t] # NoFactory
    /\ commandFactories[origin[b].parent][t] # commandFactories[b][t]
    /\ calls[c].factoryCalls = <<commandFactories[b][t]>>
    /\ commandFactories[origin[b].parent][t] \notin RegisteredOn(b)

\* C35: the Mediator never consumes the collector: over any sequence of
\* processEvent calls every step leaves the collector as it was or appends
\* one event at its tail, and every event a call has published, in an
\* earlier call as well, is still in the collector.
C35_MediatorNeverConsumes ==
  /\ [][/\ IsPrefix(events, events')
         /\ Len(events') <= Len(events) + 1]_vars
  /\ [](\A c \in DOMAIN calls : \A i \in 1..Len(calls[c].published) :
          \E j \in 1..Len(events) : events[j] = calls[c].published[i])

C35_Witness ==
  /\ 2 \in DOMAIN calls
  /\ calls[1].pc = "completed"
  /\ calls[2].pc = "completed"
  /\ Len(calls[1].published) = 1
  /\ Len(calls[2].published) = 1
  /\ events = <<calls[1].published[1], calls[2].published[1]>>

\* C36: the sideEffects figure the metrics post-hook records is the number
\* of events in the shared collector at the moment the hook runs, whichever
\* call added them: events of earlier calls that were not cleared and of
\* other calls in flight are counted with those of the hook's own command.
C36_MetricsCountsCollector ==
  [][\A c \in DOMAIN calls :
       calls'[c].recorded # calls[c].recorded =>
         /\ Len(calls'[c].recorded) = Len(calls[c].recorded) + 1
         /\ Last(calls'[c].recorded).sideEffects = Len(events)
         /\ Last(calls'[c].recorded).sideEffects =
               TotalPublished(Cardinality(DOMAIN calls))
         /\ events' = events]_vars

C36_Witness ==
  \E c \in DOMAIN calls : \E d \in DOMAIN calls :
    /\ d # c
    /\ calls[d].pc \notin {"idle", "completed", "errorHandled"}
    /\ Len(calls[d].published) = 1
    /\ Len(calls[c].published) = 1
    /\ Len(calls[c].recorded) = 1
    /\ calls[c].recorded[1].sideEffects = 2

\* C37: register leaves the singleton cache alone: a cached instance stays
\* as it is through every operation but clearInstances, and while it is
\* cached a resolve of its identifier under a singleton definition, the
\* registered one or one registered over it since, returns it without running
\* any class or factory.
C37_RegisterKeepsCache ==
  /\ [][\A id \in Ids :
          (container.instances[id].has /\ resolution'.last.op # "clear")
            => container'.instances[id] = container.instances[id]]_vars
  /\ [][\A id \in Ids :
          ( /\ resolution'.last.op = "resolve"
            /\ resolution'.last.id = id
            /\ container.services[id].registered
            /\ container.services[id].def.lifetime = "singleton"
            /\ container.instances[id].has )
            => /\ resolution'.last.result = container.instances[id].value
               /\ resolution'.last.ran = "none"
               /\ ~resolution'.last.threw]_vars

C37_Witness ==
  \E id \in Ids :
    /\ resolution.last.op = "resolve"
    /\ resolution.last.id = id
    /\ container.services[id].def = Definition(2, 0, "absent", "singleton")
    /\ container.instances[id].has
    /\ container.instances[id].value.kind = "object"
    /\ container.instances[id].value.of = 1
    /\ resolution.last.result = container.instances[id].value

\* C38: the commission in the event a rep command emits is 15% of the
\* potentialRevenue of the event it was made for (of 1000 when there is
\* none), whatever commissionRate and projectedCommission the commission
\* hook has written to context.state: two runs on events with the same
\* potentialRevenue, one through a stack with the hook and one without it,
\* emit the same commission.
RepEvents(c) ==
  {calls[c].published[i] : i \in 1..Len(calls[c].published)}

HasCommissionHook(b) ==
  \E i \in 1..Len(preInvokeHooks[b]) : HookKind(preInvokeHooks[b][i]) = "commission"

LeftByHook(c) ==
  LET o == calls[c].context.state IN
  {states[o][i] : i \in 1..Len(states[o])}

C39_DefinitionPrecedence ==
  [][\A id \in Ids :
       LET def == container.services[id].def
           out == resolution'.last IN
       ( /\ out.op = "resolve"
         /\ out.id = id
         /\ container.services[id].registered
         /\ ~(def.lifetime = "singleton" /\ container.instances[id].has) )
         => /\ def.useClass # 0 =>
                 /\ out.ran = "class"
                 /\ ~out.threw => (out.result.kind = "object" /\ out.result.of = def.useClass)
            /\ (def.useClass = 0 /\ def.useFactory # 0) =>
                 /\ out.ran = "factory"
                 /\ ~out.threw => (out.result.kind = "made" /\ out.result.of = def.useFactory)
            /\ (def.useClass = 0 /\ def.useFactory = 0 /\ def.useValue = "value") =>
                 /\ out.ran = "none"
                 /\ ~out.threw
                 /\ out.result.kind = "value"
            /\ (def.useClass = 0 /\ def.useFactory = 0 /\ def.useValue # "value") =>
                 /\ out.threw
                 /\ out.error = "Invalid service definition"
                 /\ out.ran = "none"
                 /\ container' = container]_vars

C39_Witness ==
  \E id \in Ids :
    /\ resolution.last.op = "resolve"
    /\ resolution.last.id = id
    /\ container.services[id].def.useValue = "falsy"
    /\ container.services[id].def.useClass = 0
    /\ container.services[id].def.useFactory = 0
    /\ resolution.last.threw
    /\ resolution.last.error = "Invalid service definition"

====
